---- MODULE Spec2Model ----
(***************************************************************************)
(* A model of the PDF/abstract extraction service                          *)
(* (server/app/services/pdf_extraction_service.py).                        *)
(*                                                                         *)
(* Strings that the code inspects character by character (titles,          *)
(* abstracts, page texts) are sequences of tokens; each token stands for   *)
(* one concrete piece of text:                                             *)
(*    "polysomnography"  a plain word (15 characters, no result marker)    *)
(*    "vs"               the marker word "vs"                              *)
(*    "OR=2"             an effect size (EFFECT_PATTERN matches it)        *)
(*    "p=.05"            a p-value (P_VALUE_PATTERN matches it, marker p=) *)
(*    " ", "\n"          whitespace                                        *)
(*    "."                sentence-ending punctuation                       *)
(* and the words of Keywords, each standing for itself.                    *)
(* The texts drawn as inputs never put two word tokens side by side, so a  *)
(* word token is always a whole word of the text and the regular           *)
(* expressions of the code act on these texts as the operators below do.   *)
(* Optional values are sequences: <<>> is None, <<v>> is the value v.      *)
(* Confidence scores are integers in hundredths.                           *)
(***************************************************************************)
EXTENDS Integers, Sequences, FiniteSets, TLC

VARIABLES
    request,          \* ExtractStudiesRequest: [papers, timeout_ms]
    pc,               \* where the batch driver / extract_one stands
    idx,              \* index of the paper of the for loop
    results,          \* results: List[ExtractionItemModel]
    timeout_ms,       \* extract_studies_batch: the clamped timeout
    timeout_seconds,  \* extract_one: timeout_seconds
    parse_error,      \* extract_one: parse_error
    cur_url,          \* the URL the HTTP client requests next (<<>>: none)
    hops,             \* redirects followed for the current download
    pdf_bytes,        \* extract_one: pdf_bytes (<<>> before the download)
    pdf_text,         \* extract_one: text
    sent,             \* history: the last request the HTTP client has sent (<<>>: none)
    hist,             \* history: per paper, the steps taken and what the environment gave
    arg,              \* input of the function applied (function specifications)
    ret,              \* its result, <<>> until it has been applied
    tasks,            \* download service: the task table, task_id -> task record
    handler,          \* download service: per POST /api/download call, where it stands
    thread,           \* download service: per task_id, where its download thread stands
    issued,           \* download service: how many task ids have been generated
    response          \* download service: the last response a POST handler has sent

fnvars == <<arg, ret>>
pipevars ==
    << request, pc, idx, results, timeout_ms, timeout_seconds, parse_error, cur_url, hops,
       pdf_bytes, pdf_text, sent, hist >>
svcvars == <<tasks, handler, thread, issued, response>>
vars == <<pipevars, fnvars, svcvars>>

None == <<>>
Some(v) == <<v>>

\* download service: the POST /api/download calls in flight, the task ids uuid4
\* hands out, and the paper_type values sent
MaxHandlers == 2
MaxRequests == 6
Handlers == 1..MaxHandlers
TaskIds == 1..MaxRequests
NoResponse == [paper_type |-> "", status_code |-> 0]

Min(a, b) == IF a <= b THEN a ELSE b
Max(a, b) == IF a >= b THEN a ELSE b

\* ------------------------------------------------------------------ bounds

MaxTextLen == 5
MaxAddrs == 2
MaxPapers == 2
\* the redirects the HTTP client follows before it raises TooManyRedirects
\* (httpx: 20)
MaxRedirects == 2

\* ------------------------------------------------------------------ texts

Words == {"polysomnography", "vs", "OR=2", "p=.05"}
Spaces == {" ", "\n"}
Tokens == Words \cup Spaces \cup {"."}

\* The words the classifier and the field miner look for.
Keywords ==
    { "review", "reviews", "systematic", "meta-analysis", "randomized", "cohort",
      "survey", "participants", "n=120", "n=01", "240" }

AllWords == Words \cup Keywords

\* len() of a token; "or=2", "p=", "05", "reported outcome" and "..." are
\* pieces of text the code produces
TokLen(t) ==
    CASE t = "polysomnography" -> 15
      [] t = "vs" -> 2
      [] t \in {"OR=2", "or=2"} -> 4
      [] t = "p=.05" -> 5
      [] t \in {"p=", "05"} -> 2
      [] t = "reported outcome" -> 16
      [] t = "..." -> 3
      [] t \in {"review", "cohort", "survey"} -> 6
      [] t = "reviews" -> 7
      [] t \in {"systematic", "randomized"} -> 10
      [] t = "meta-analysis" -> 13
      [] t = "participants" -> 12
      [] t = "n=120" -> 5
      [] t = "n=01" -> 4
      [] t = "240" -> 3
      [] t = "a word of 400 letters" -> 400
      [] t = "a word of 18 letters" -> 18
      [] OTHER -> 1

RECURSIVE StrLen(_)
StrLen(s) == IF s = <<>> THEN 0 ELSE TokLen(Head(s)) + StrLen(Tail(s))

\* Python truthiness of an Optional[str]: neither None nor ""
Truthy(opt) == opt # <<>> /\ opt[1] # <<>>

\* text[:n]. A cut is exact when it falls between two tokens; the texts within
\* MaxTextLen are shorter than every n the code slices at.
RECURSIVE Slice(_, _)
Slice(s, n) ==
    IF s = <<>> \/ TokLen(Head(s)) > n THEN <<>>
    ELSE <<Head(s)>> \o Slice(Tail(s), n - TokLen(Head(s)))

\* str.lower() on a token
LowerTok(t) == IF t = "OR=2" THEN "or=2" ELSE t
Lower(s) == [i \in 1..Len(s) |-> LowerTok(s[i])]

\* The texts given as inputs: no two word tokens side by side.
WellFormed(s) == \A i \in 1..(Len(s) - 1) : ~(s[i] \in AllWords /\ s[i + 1] \in AllWords)

SeqsUpTo(S, n) == UNION {[1..k -> S] : k \in 0..n}

Texts == {s \in SeqsUpTo(Tokens, MaxTextLen) : WellFormed(s)}

\* str.strip(): whitespace removed at both ends
RECURSIVE LStrip(_)
LStrip(s) == IF s # <<>> /\ Head(s) \in Spaces THEN LStrip(Tail(s)) ELSE s

RECURSIVE RStrip(_)
RStrip(s) ==
    IF s # <<>> /\ s[Len(s)] \in Spaces THEN RStrip(SubSeq(s, 1, Len(s) - 1)) ELSE s

Strip(s) == RStrip(LStrip(s))

\* re.sub(r"\s+", " ", text): every run of whitespace becomes one space
RECURSIVE CollapseWs(_, _)
CollapseWs(s, n) ==
    IF n = 0 THEN <<>>
    ELSE LET rest == CollapseWs(s, n - 1) IN
         IF s[n] \in Spaces
         THEN IF n > 1 /\ s[n - 1] \in Spaces THEN rest ELSE Append(rest, " ")
         ELSE Append(rest, s[n])

\* The texts hold no "\r\n", no tab and no hyphen, so the two replace() calls
\* and the de-hyphenation re.sub change nothing; the collapse and the strip do.
normalize_whitespace(raw) == Strip(CollapseWs(raw, Len(raw)))

\* re.split(r"(?<=[.!?])\s+", normalized): cut at a space that follows a "."
RECURSIVE SplitFrom(_, _, _)
SplitFrom(s, i, cur) ==
    IF i > Len(s) THEN <<cur>>
    ELSE IF s[i] \in Spaces /\ i > 1 /\ s[i - 1] = "."
         THEN <<cur>> \o SplitFrom(s, i + 1, <<>>)
         ELSE SplitFrom(s, i + 1, Append(cur, s[i]))

NonEmptyStripped(pieces) ==
    LET stripped == [i \in 1..Len(pieces) |-> Strip(pieces[i])]
    IN  SelectSeq(stripped, LAMBDA p : p # <<>>)

split_sentences(text) ==
    LET normalized == normalize_whitespace(text) IN
    IF normalized = <<>> THEN <<>>
    ELSE NonEmptyStripped(SplitFrom(normalized, 1, <<>>))

\* ------------------------------------------------------------------ outcome miner

\* RESULT_MARKERS: of the tokens, "vs" holds the marker "vs" and "p=.05" the
\* marker "p="; no marker spans two tokens.
HasMarker(sentence) == \E i \in 1..Len(sentence) : Lower(sentence)[i] \in {"vs", "p=.05"}

\* EFFECT_PATTERN.search / P_VALUE_PATTERN.search / CI_PATTERN.search, then
\* normalize_whitespace(match.group(0)); no token matches CI_PATTERN.
EffectMatch(sentence) ==
    LET hits == {i \in 1..Len(sentence) : sentence[i] = "OR=2"} IN
    IF hits = {} THEN None
    ELSE LET i == CHOOSE m \in hits : \A o \in hits : m <= o IN
         IF i + 2 <= Len(sentence) /\ sentence[i + 1] = "." /\ sentence[i + 2] = "240"
         THEN Some(<<"OR=2", ".", "240">>)      \* the number goes on: "OR=2.240"
         ELSE Some(<<"OR=2">>)
PValueMatch(sentence) ==
    IF \E i \in 1..Len(sentence) : sentence[i] = "p=.05" THEN Some(<<"p=.05">>) ELSE None
CiMatch(sentence) == None

\* First pattern of extract_intervention_comparator: "<A> vs <B>" needs a word,
\* whitespace, "vs", whitespace and a word; [^.;,] stops both groups at a "."
\* character, the one inside "p=.05" included. The second pattern needs
\* "randomized to", which no token holds.
Qualifies(s, j) ==
    /\ s[j] = "vs"
    /\ j >= 3 /\ s[j - 1] = " " /\ s[j - 2] \in AllWords
    /\ j + 2 <= Len(s) /\ s[j + 1] = " " /\ s[j + 2] \in AllWords

RECURSIVE Group1(_, _)
Group1(s, k) ==
    IF k = 0 \/ s[k] = "." THEN <<>>
    ELSE IF s[k] = "p=.05" THEN <<"05">>
    ELSE Append(Group1(s, k - 1), s[k])

RECURSIVE Group2(_, _)
Group2(s, k) ==
    IF k > Len(s) \/ s[k] = "." THEN <<>>
    ELSE IF s[k] = "p=.05" THEN <<"p=">>
    ELSE <<s[k]>> \o Group2(s, k + 1)

extract_intervention_comparator(sentence) ==
    LET js == {j \in 1..Len(sentence) : Qualifies(sentence, j)} IN
    IF js = {} THEN <<None, None>>
    ELSE LET j == CHOOSE m \in js : \A o \in js : m <= o
             intervention == normalize_whitespace(Group1(sentence, j - 2))
             comparator == normalize_whitespace(Group2(sentence, j + 2))
         IN  IF intervention # <<>> /\ comparator # <<>>
             THEN <<Some(intervention), Some(comparator)>>
             ELSE <<None, None>>

\* re.sub(r"[^a-z0-9\s]", " ", token).split(): the alphanumeric pieces of a token
AlnumPieces(t) ==
    CASE t = "or=2" -> <<"or", "2">>
      [] t = "p=.05" -> <<"p", "05">>
      [] t = "meta-analysis" -> <<"meta", "analysis">>
      [] t = "n=120" -> <<"n", "120">>
      [] t = "n=01" -> <<"n", "01">>
      [] t \in Spaces \cup {"."} -> <<>>
      [] OTHER -> <<t>>

PieceLen(p) ==
    CASE p \in {"p", "2", "n"} -> 1
      [] p \in {"or", "05", "01"} -> 2
      [] p = "120" -> 3
      [] p = "meta" -> 4
      [] p = "analysis" -> 8
      [] OTHER -> TokLen(p)

RECURSIVE AllPieces(_)
AllPieces(s) == IF s = <<>> THEN <<>> ELSE AlnumPieces(Head(s)) \o AllPieces(Tail(s))

RECURSIVE Join(_)
Join(ws) ==
    IF ws = <<>> THEN <<>>
    ELSE IF Len(ws) = 1 THEN ws
    ELSE <<Head(ws), " ">> \o Join(Tail(ws))

\* Neither phrase pattern of infer_outcome matches (no token is one of its
\* verbs), so the label is the first 8 tokens longer than 2 characters.
infer_outcome(sentence) ==
    LET tokens == SelectSeq(AllPieces(Lower(sentence)), LAMBDA p : PieceLen(p) > 2)
        first8 == SubSeq(tokens, 1, Min(Len(tokens), 8))
    IN  IF first8 = <<>> THEN <<"reported outcome">> ELSE Join(first8)

\* score_outcome returning score, without max(0.0, min(1.0, score))
score_outcome_unclamped(outcome) ==
    20 + (IF Truthy(outcome.key_result) THEN 20 ELSE 0)
       + (IF Truthy(outcome.effect_size) THEN 25 ELSE 0)
       + (IF Truthy(outcome.p_value) THEN 20 ELSE 0)
       + (IF Truthy(outcome.intervention) THEN 15 ELSE 0)
       + (IF Truthy(outcome.comparator) THEN 15 ELSE 0)
       + (IF outcome.citation_snippet # <<>> /\ StrLen(outcome.citation_snippet) >= 20
          THEN 10 ELSE 0)

\* score_outcome without "if outcome.key_result: score += 0.2"
score_outcome_without_key_result(outcome) ==
    Max(0, Min(100, score_outcome_unclamped(outcome)
                    - (IF Truthy(outcome.key_result) THEN 20 ELSE 0)))

score_outcome(outcome) ==
    LET score == 20
                 + (IF Truthy(outcome.key_result) THEN 20 ELSE 0)
                 + (IF Truthy(outcome.effect_size) THEN 25 ELSE 0)
                 + (IF Truthy(outcome.p_value) THEN 20 ELSE 0)
                 + (IF Truthy(outcome.intervention) THEN 15 ELSE 0)
                 + (IF Truthy(outcome.comparator) THEN 15 ELSE 0)
                 + (IF outcome.citation_snippet # <<>> /\ StrLen(outcome.citation_snippet) >= 20
                    THEN 10 ELSE 0)
    IN  Max(0, Min(100, score))

OrEmpty(opt) == IF opt = None THEN <<>> ELSE opt[1]

DedupeKey(item) ==
    << Strip(Lower(item.outcome.outcome_measured)),
       Strip(Lower(OrEmpty(item.outcome.effect_size))),
       Strip(Lower(OrEmpty(item.outcome.p_value))),
       normalize_whitespace(Lower(item.outcome.citation_snippet)) >>

RECURSIVE DedupeFrom(_, _, _)
DedupeFrom(items, i, seen) ==
    IF i > Len(items) THEN <<>>
    ELSE IF DedupeKey(items[i]) \in seen THEN DedupeFrom(items, i + 1, seen)
    ELSE <<items[i]>> \o DedupeFrom(items, i + 1, seen \cup {DedupeKey(items[i])})

dedupe_outcomes(items) == DedupeFrom(items, 1, {})

Candidate(sentence) ==
    LET ic == extract_intervention_comparator(sentence)
        effect_match == EffectMatch(sentence)
        p_match == PValueMatch(sentence)
        ci_match == CiMatch(sentence)
        outcome == [ outcome_measured |-> infer_outcome(sentence),
                     key_result |-> Some(sentence),
                     citation_snippet |-> sentence,
                     intervention |-> ic[1],
                     comparator |-> ic[2],
                     effect_size |-> effect_match,
                     p_value |-> IF p_match # None THEN p_match ELSE ci_match ]
    IN  [outcome |-> outcome, confidence |-> score_outcome(outcome)]

\* sorted(deduped, key=confidence, reverse=True)[0]: the sort is stable, so
\* the first item of the highest confidence
Best(deduped) ==
    LET top == CHOOSE i \in 1..Len(deduped) :
                 /\ \A j \in 1..Len(deduped) : deduped[j].confidence <= deduped[i].confidence
                 /\ \A j \in 1..(i - 1) : deduped[j].confidence < deduped[i].confidence
    IN  deduped[top]

extract_outcomes(text) ==
    LET sentences == split_sentences(text)
        marked == SelectSeq(sentences, HasMarker)
        candidates == [i \in 1..Len(marked) |-> Candidate(marked[i])]
        deduped == dedupe_outcomes(candidates)
        filtered == SelectSeq(deduped, LAMBDA item : item.confidence >= 35)
    IN  IF filtered = <<>> /\ deduped # <<>>
        THEN <<(<<Best(deduped).outcome>>), (<<Best(deduped).confidence>>)>>
        ELSE IF filtered = <<>> /\ sentences # <<>>
        THEN LET fallback_sentence == Slice(sentences[1], 280)
                 fallback == [ outcome_measured |-> infer_outcome(fallback_sentence),
                               key_result |-> Some(fallback_sentence),
                               citation_snippet |-> fallback_sentence,
                               intervention |-> None,
                               comparator |-> None,
                               effect_size |-> None,
                               p_value |-> None ]
             IN  <<(<<fallback>>), (<<score_outcome(fallback)>>)>>
        ELSE << [i \in 1..Len(filtered) |-> filtered[i].outcome],
                [i \in 1..Len(filtered) |-> filtered[i].confidence] >>

\* ------------------------------------------------------------------ classifier, field miner

Has(text, word) == \E i \in 1..Len(text) : Lower(text)[i] = word

\* "systematic review" in lowered: the two words with one space between; the
\* word "reviews" begins with "review"
HasSystematicReview(text) ==
    \E i \in 1..(Len(text) - 2) :
        /\ Lower(text)[i] = "systematic" /\ text[i + 1] = " "
        /\ Lower(text)[i + 2] \in {"review", "reviews"}

classify_review_type(text) ==
    IF Has(text, "meta-analysis") THEN "Meta-analysis"
    ELSE IF HasSystematicReview(text) THEN "Systematic review"
    ELSE "None"

\* The \b...\b alternations match whole words only: "reviews" is no match.
classify_study_design(text) ==
    IF Has(text, "meta-analysis") \/ Has(text, "review") THEN "review"
    ELSE IF Has(text, "randomized") THEN "RCT"
    ELSE IF Has(text, "cohort") THEN "cohort"
    ELSE IF Has(text, "survey") THEN "cross-sectional"
    ELSE "unknown"

\* int() of the digits \d{2,7} that end a token, -1 when the token does not
\* end with two digits after a word boundary
TrailingNumber(t) ==
    CASE t = "n=120" -> 120
      [] t = "n=01" -> 1
      [] t = "240" -> 240
      [] t = "p=.05" -> 5
      [] OTHER -> -1

\* pattern.search(text) for the three SAMPLE_PATTERNS: the number of the first
\* match, <<>> when the pattern does not match. The first two patterns are
\* the same under re.IGNORECASE.
SampleMatch(pattern, text) ==
    IF pattern \in {1, 2}
    THEN LET hits == {i \in 1..Len(text) : text[i] \in {"n=120", "n=01"}} IN
         IF hits = {} THEN None
         ELSE Some(TrailingNumber(text[CHOOSE i \in hits : \A j \in hits : i <= j]))
    ELSE LET hits == {i \in 3..Len(text) : /\ text[i] = "participants"
                                            /\ text[i - 1] \in Spaces
                                            /\ TrailingNumber(text[i - 2]) >= 0} IN
         IF hits = {} THEN None
         ELSE Some(TrailingNumber(text[(CHOOSE i \in hits : \A j \in hits : i <= j) - 2]))

RECURSIVE SampleFrom(_, _)
SampleFrom(pattern, text) ==
    IF pattern > 3 THEN None
    ELSE LET match == SampleMatch(pattern, text) IN
         IF match = None THEN SampleFrom(pattern + 1, text)
         ELSE IF 2 <= match[1] /\ match[1] <= 10000000 THEN Some(match[1])
         ELSE SampleFrom(pattern + 1, text)

extract_sample_size(text) == SampleFrom(1, text)

extract_population(text) ==
    LET sentences == split_sentences(text)
        hits == {i \in 1..Len(sentences) : Has(sentences[i], "participants")}
    IN  IF hits = {} THEN None
        ELSE Some(Slice(sentences[CHOOSE i \in hits : \A j \in hits : i <= j], 220))

excerpt(text) ==
    LET normalized == normalize_whitespace(text) IN
    IF StrLen(normalized) <= 420 THEN normalized
    ELSE Slice(normalized, 419) \o <<"...">>

\* ------------------------------------------------------------------ safe fetcher: policy

\* A URL as written: its scheme, its host (dot-separated labels, <<>> when the
\* URL has none) and the rest. The empty string is the URL with all three empty.
Url(scheme, host, path) == [scheme |-> scheme, host |-> host, path |-> path]

\* str.lower() on a scheme or a host label
LowerWord(w) ==
    CASE w = "HTTPS" -> "https"
      [] w = "LOCALHOST" -> "localhost"
      [] w = "Printer" -> "printer"
      [] w = "LOCAL" -> "local"
      [] OTHER -> w

LowerHost(host) == [i \in 1..Len(host) |-> LowerWord(host[i])]

\* What a call gives: the value it returns, or the exception it raises with
\* its str().
Returns(v) == [raised |-> FALSE, value |-> v]
Throws(exc, msg) == [raised |-> TRUE, exc |-> exc, msg |-> msg]

\* "https://[zzz...z]/a.pdf": 300 letters between brackets, no IP address
LongBracketedHost == <<"[a host of 300 letters]">>

\* urllib.parse.urlparse: .scheme and .hostname are lower-cased, .hostname is
\* None when the URL has no host; a host with an unmatched "[" is a ValueError,
\* and so is a bracketed host that is no IP address, with the host in the message
urlparse(pdf_url) ==
    IF pdf_url.host = LongBracketedHost
    THEN Throws("ValueError", [ base |-> "'zzz...z' does not appear to be an IPv4 or IPv6 address",
                                len |-> 348 ])
    ELSE IF \E i \in 1..Len(pdf_url.host) : pdf_url.host[i] = "["
    THEN Throws("ValueError", [base |-> "Invalid IPv6 URL", len |-> 16])
    ELSE Returns([ scheme |-> LowerWord(pdf_url.scheme),
                   hostname |-> IF pdf_url.host = <<>> THEN None
                                ELSE Some(LowerHost(pdf_url.host)) ])

\* ipaddress.ip_address on the addresses of the model: the flags of the
\* address, or parsed = FALSE for the ValueError
IpFlags(private, loopback, link_local, reserved, multicast) ==
    [ parsed |-> TRUE, is_private |-> private, is_loopback |-> loopback,
      is_link_local |-> link_local, is_reserved |-> reserved, is_multicast |-> multicast ]

ip_address(addr) ==
    CASE addr = <<"93", "184", "216", "34">> -> IpFlags(FALSE, FALSE, FALSE, FALSE, FALSE)
      [] addr = <<"10", "0", "0", "1">> -> IpFlags(TRUE, FALSE, FALSE, FALSE, FALSE)
      [] addr = <<"127", "0", "0", "1">> -> IpFlags(TRUE, TRUE, FALSE, FALSE, FALSE)
      [] addr = <<"169", "254", "169", "254">> -> IpFlags(TRUE, FALSE, TRUE, FALSE, FALSE)
      [] addr = <<"240", "0", "0", "1">> -> IpFlags(TRUE, FALSE, FALSE, TRUE, FALSE)
      [] addr = <<"224", "0", "0", "1">> -> IpFlags(FALSE, FALSE, FALSE, FALSE, TRUE)
      [] OTHER -> [parsed |-> FALSE]

Unsafe(ip) ==
    ip.is_private \/ ip.is_loopback \/ ip.is_link_local \/ ip.is_reserved \/ ip.is_multicast

\* str.endswith("." + label)
EndsWithLabel(host, label) == Len(host) >= 2 /\ host[Len(host)] = label

BlockedHostnames == {<<"localhost">>, <<"metadata">>, <<"metadata", "google", "internal">>}

\* The answer of socket.getaddrinfo: ok = FALSE for socket.gaierror, else the
\* addresses in the order returned.
DnsFail == [ok |-> FALSE, addrs |-> <<>>]
DnsOk(addrs) == [ok |-> TRUE, addrs |-> addrs]

\* getaddrinfo encodes the name with the idna codec before it asks: a name
\* with an empty label before its last one ("a..b") is a UnicodeError, which is
\* no socket.gaierror
IdnaFails(host) == \E i \in 1..(Len(host) - 1) : host[i] = ""
IdnaError ==
    [ base |-> "encoding with 'idna' codec failed (UnicodeError: label empty or too long)",
      len |-> 73 ]

\* for info in infos: ... of is_private_host
RECURSIVE ScanInfos(_, _)
ScanInfos(infos, i) ==
    IF i > Len(infos) THEN FALSE
    ELSE LET ip == ip_address(infos[i]) IN
         IF ~ip.parsed THEN TRUE
         ELSE IF Unsafe(ip) THEN TRUE
         ELSE ScanInfos(infos, i + 1)

\* is_private_host with "except socket.gaierror: return False"
is_private_host_fail_open(host, dns) ==
    LET lowered == LowerHost(host) IN
    IF lowered \in BlockedHostnames THEN Returns(TRUE)
    ELSE IF EndsWithLabel(lowered, "local") \/ EndsWithLabel(lowered, "internal")
    THEN Returns(TRUE)
    ELSE IF ip_address(lowered).parsed THEN Returns(Unsafe(ip_address(lowered)))
    ELSE IF IdnaFails(host) THEN Throws("UnicodeError", IdnaError)
    ELSE IF ~dns.ok THEN Returns(FALSE)
    ELSE Returns(ScanInfos(dns.addrs, 1))

\* dns is what getaddrinfo answers if is_private_host gets to ask
is_private_host(host, dns) ==
    LET lowered == LowerHost(host) IN
    IF lowered \in BlockedHostnames THEN Returns(TRUE)
    ELSE IF EndsWithLabel(lowered, "local") \/ EndsWithLabel(lowered, "internal")
    THEN Returns(TRUE)
    ELSE IF ip_address(lowered).parsed THEN Returns(Unsafe(ip_address(lowered)))
    ELSE IF IdnaFails(host) THEN Throws("UnicodeError", IdnaError)
    ELSE IF ~dns.ok THEN Returns(TRUE)
    ELSE Returns(ScanInfos(dns.addrs, 1))

\* Error strings are [base, len]: the first len characters of the text base.
Str(code) == [base |-> code, len |-> Len(code)]

\* validate_pdf_url with the host rules tried before the scheme rule
validate_pdf_url_host_first(pdf_url, dns) ==
    IF urlparse(pdf_url).raised THEN urlparse(pdf_url)
    ELSE LET parsed == urlparse(pdf_url).value IN
         IF parsed.hostname = None \/ parsed.hostname = Some(<<>>)
         THEN Returns(Some(Str("invalid_url")))
         ELSE IF is_private_host(parsed.hostname[1], dns).raised
         THEN is_private_host(parsed.hostname[1], dns)
         ELSE IF is_private_host(parsed.hostname[1], dns).value
         THEN Returns(Some(Str("private_host_rejected")))
         ELSE IF LowerWord(parsed.scheme) # "https" THEN Returns(Some(Str("only_https_allowed")))
         ELSE Returns(None)

\* validate_pdf_url without the private-host rule
validate_pdf_url_no_host_rule(pdf_url, dns) ==
    IF urlparse(pdf_url).raised THEN urlparse(pdf_url)
    ELSE LET parsed == urlparse(pdf_url).value IN
         IF LowerWord(parsed.scheme) # "https" THEN Returns(Some(Str("only_https_allowed")))
         ELSE IF parsed.hostname = None \/ parsed.hostname = Some(<<>>)
         THEN Returns(Some(Str("invalid_url")))
         ELSE Returns(None)

\* Neither call is inside a try: what urlparse or is_private_host raises,
\* validate_pdf_url raises.
validate_pdf_url(pdf_url, dns) ==
    IF urlparse(pdf_url).raised THEN urlparse(pdf_url)
    ELSE LET parsed == urlparse(pdf_url).value IN
         IF LowerWord(parsed.scheme) # "https" THEN Returns(Some(Str("only_https_allowed")))
         ELSE IF parsed.hostname = None \/ parsed.hostname = Some(<<>>)
         THEN Returns(Some(Str("invalid_url")))
         ELSE IF is_private_host(parsed.hostname[1], dns).raised
         THEN is_private_host(parsed.hostname[1], dns)
         ELSE IF is_private_host(parsed.hostname[1], dns).value
         THEN Returns(Some(Str("private_host_rejected")))
         ELSE Returns(None)

\* ------------------------------------------------------------------ safe fetcher: download

MAX_PDF_BYTES == 15 * 1024 * 1024
MAX_PDF_PAGES == 25
DEFAULT_TIMEOUT_SECONDS == 12

\* str(exc): the whole message
NoSlice(msg) == msg

\* str(exc)[:200] and the like, on an error string
Slice200(msg) == [base |-> msg.base, len |-> Min(msg.len, 200)]

\* Python truthiness of an Optional error string
TruthyStr(opt) == opt # None /\ opt[1].len > 0

\* A response body is [magic, runs, primary, secondary]: whether it starts
\* with %PDF, the chunks iter_bytes(8192) yields (runs of count chunks of size
\* bytes), and what the two parsers make of it: [raises, pages], the page texts
\* read before the parser raised if it raises.
Body(magic, runs, primary, secondary) ==
    [magic |-> magic, runs |-> runs, primary |-> primary, secondary |-> secondary]
Parsed(pages) == [raises |-> FALSE, pages |-> pages]
Raises(pages) == [raises |-> TRUE, pages |-> pages]

\* for chunk in response.iter_bytes(8192) of download_pdf_bytes, a run of equal
\* chunks at a time: total grows by size per chunk, and the loop raises at the
\* first chunk that takes it over MAX_PDF_BYTES. The result is [raised, total]:
\* total is the bytes received when the loop ended.
RECURSIVE DownloadFrom(_, _, _)
DownloadFrom(runs, i, total) ==
    IF i > Len(runs) THEN [raised |-> FALSE, total |-> total]
    ELSE LET size == runs[i].size
             count == runs[i].count
             room == MAX_PDF_BYTES - total              \* bytes left under the cap
             fit == room \div size                      \* chunks of the run that fit
         IN  IF fit < count
             THEN [raised |-> TRUE, total |-> total + (fit + 1) * size]
             ELSE DownloadFrom(runs, i + 1, total + count * size)

download_pdf_bytes(body) == DownloadFrom(body.runs, 1, 0)

\* response.iter_bytes(8192): a body of length bytes arrives as chunks of 8192
\* bytes and one shorter last chunk
ChunkSize == 8192
NChunks(length) == (length + ChunkSize - 1) \div ChunkSize
ChunkLen(length, i) == IF i * ChunkSize <= length THEN ChunkSize ELSE length - (i - 1) * ChunkSize
ChunkRuns(length) ==
    SelectSeq(<< [size |-> ChunkSize, count |-> length \div ChunkSize],
                 [size |-> length % ChunkSize, count |-> 1] >>,
              LAMBDA r : r.size > 0 /\ r.count > 0)

\* if total >= MAX_PDF_BYTES: a cap that rejects a body of exactly the cap
ExceedsOrReaches(total) == total >= MAX_PDF_BYTES

\* if total > MAX_PDF_BYTES
Exceeds(total) == total > MAX_PDF_BYTES

\* ------------------------------------------------------------------ document reader

\* pages[:MAX_PDF_PAGES], page.extract_text() or "", the non-empty ones kept
PageTexts(pages) ==
    SelectSeq(SubSeq(pages, 1, Min(Len(pages), MAX_PDF_PAGES)), LAMBDA t : t # <<>>)

RECURSIVE JoinLines(_)
JoinLines(parts) ==
    IF parts = <<>> THEN <<>>
    ELSE IF Len(parts) = 1 THEN parts[1]
    ELSE parts[1] \o <<"\n">> \o JoinLines(Tail(parts))

\* extract_pdf_text without "except Exception: text_parts = []": the page
\* texts pdfplumber collected before it raised are kept
extract_pdf_text_keeps_partial(pdf) ==
    LET first == PageTexts(pdf.primary.pages) IN
    IF first # <<>>
    THEN [raised |-> FALSE, text |-> normalize_whitespace(JoinLines(first)), secondary |-> FALSE]
    ELSE IF pdf.secondary.raises
    THEN [raised |-> TRUE, text |-> <<>>, secondary |-> TRUE]
    ELSE [ raised |-> FALSE,
           text |-> normalize_whitespace(JoinLines(PageTexts(pdf.secondary.pages))),
           secondary |-> TRUE ]

\* [raised, text, secondary]: raised when PdfReader raises, secondary when
\* the second parser was run
extract_pdf_text(pdf) ==
    LET first == IF pdf.primary.raises THEN <<>> ELSE PageTexts(pdf.primary.pages) IN
    IF first # <<>>
    THEN [raised |-> FALSE, text |-> normalize_whitespace(JoinLines(first)), secondary |-> FALSE]
    ELSE IF pdf.secondary.raises
    THEN [raised |-> TRUE, text |-> <<>>, secondary |-> TRUE]
    ELSE [ raised |-> FALSE,
           text |-> normalize_whitespace(JoinLines(PageTexts(pdf.secondary.pages))),
           secondary |-> TRUE ]

\* ------------------------------------------------------------------ inputs and environment

\* what getaddrinfo may answer while a batch runs
PipeDns == {DnsFail, DnsOk(<<(<<"93", "184", "216", "34">>)>>), DnsOk(<<(<<"10", "0", "0", "1">>)>>)}

UrlEmpty == Url("", <<>>, "")
UrlPublic == Url("https", <<"example", "org">>, "/a.pdf")
UrlLocalhost == Url("https", <<"localhost">>, "/private.pdf")
UrlHttp == Url("http", <<"example", "org">>, "/a.pdf")
UrlNoHost == Url("https", <<>>, "/a.pdf")
UrlMetadata == Url("http", <<"169", "254", "169", "254">>, "/latest/meta-data")
UrlMirror == Url("https", <<"cdn", "example", "org">>, "/a.pdf")
\* "https://[": a bracket that is never closed
UrlMalformed == Url("https", <<"[">>, "")

\* where a server may redirect the client
RedirectTargets == {UrlMirror, UrlMetadata}

\* str(exc) of the exceptions of the environment: empty (httpx timeouts), short, long
ExcMessages ==
    { Str(""), Str("Server error '503 Service Unavailable'"),
      [base |-> "a transport error message of 250 characters", len |-> 250] }

TitleTrial == <<"randomized", " ", "polysomnography">>
AbstractTrial ==
    << "n=120", " ", "participants", ".", "\n",
       "polysomnography", " ", "vs", " ", "cohort", " ", "p=.05", "." >>
PageResult == <<"polysomnography", " ", "vs", " ", "polysomnography", " ", "OR=2", ".">>

SmallRuns == <<[size |-> 8192, count |-> 3], [size |-> 100, count |-> 1]>>
\* 1921 chunks of 8192 bytes: 15 MiB and 8192 bytes
LargeRuns == <<[size |-> 8192, count |-> 1921]>>

WithError(parsed, msg) == [raises |-> parsed.raises, pages |-> parsed.pages, error |-> msg]
NoError == Str("")
PdfReadError == Str("Stream has ended unexpectedly")

Bodies ==
    { \* a PDF the first parser reads
      Body(TRUE, SmallRuns, Parsed(<<PageResult, <<>> >>), WithError(Parsed(<<PageResult>>), NoError)),
      \* a PDF only the second parser reads (the first raises after a page)
      Body(TRUE, SmallRuns, Raises(<<PageResult>>), WithError(Parsed(<<TitleTrial>>), NoError)),
      \* a scanned PDF: no text from either parser
      Body(TRUE, SmallRuns, Parsed(<< <<>> >>), WithError(Parsed(<< <<>>, <<"\n">> >>), NoError)),
      \* a damaged PDF: both parsers raise
      Body(TRUE, SmallRuns, Raises(<<>>), WithError(Raises(<<>>), PdfReadError)),
      \* an HTML page
      Body(FALSE, SmallRuns, Raises(<<>>), WithError(Raises(<<>>), PdfReadError)),
      \* a PDF over the byte cap
      Body(TRUE, LargeRuns, Parsed(<<PageResult>>), WithError(Parsed(<<PageResult>>), NoError)) }

MkPaper(study_id, title, abstract, pdf_url) ==
    [ study_id |-> study_id, title |-> title, year |-> 2024, source |-> "pubmed",
      doi |-> Some("10.1000/test"), pubmed_id |-> None, openalex_id |-> None,
      abstract |-> abstract, pdf_url |-> pdf_url, landing_page_url |-> None,
      citationCount |-> None, preprint_status |-> None ]

PaperSet ==
    { MkPaper("s-1", TitleTrial, AbstractTrial, None),
      MkPaper("s-2", TitleTrial, AbstractTrial, Some(UrlLocalhost)),
      MkPaper("s-1", <<>>, <<>>, None),
      MkPaper("s-2", TitleTrial, <<"\n">>, Some(UrlEmpty)),
      MkPaper("s-1", TitleTrial, <<>>, Some(UrlPublic)),
      MkPaper("s-2", <<>>, AbstractTrial, Some(UrlHttp)),
      MkPaper("s-3", TitleTrial, AbstractTrial, Some(UrlNoHost)),
      MkPaper("s-3", TitleTrial, AbstractTrial, Some(UrlMalformed)) }

TimeoutInputs == {5000}

Requests == [papers : SeqsUpTo(PaperSet, MaxPapers), timeout_ms : TimeoutInputs]

\* ------------------------------------------------------------------ orchestrator

\* str(paper.year)
YearStr(year) == IF year = 2022 THEN "2022" ELSE "2024"

format_citation(paper) ==
    Strip(<<"Unknown (", YearStr(paper.year), "). ">> \o paper.title \o <<".">>)

\* a or b on strings
OrStr(a, b) == IF a # <<>> THEN a ELSE b

\* if review_type != "None": design = "review", whatever the classifier said
ResolveDesignAlways(classified, review_type) ==
    IF review_type # "None" THEN "review" ELSE classified

\* if design == "unknown" and review_type != "None": design = "review"
ResolveDesign(classified, review_type) ==
    IF classified = "unknown" /\ review_type # "None" THEN "review" ELSE classified

build_study(paper, raw_text, engine, fallback_reason, parse_err) ==
    LET body == normalize_whitespace(OrStr(raw_text, OrStr(paper.abstract, paper.title)))
        titled == paper.title \o <<".", " ">> \o body
        classified == classify_study_design(titled)
        review_type == classify_review_type(titled)
        design == ResolveDesign(classified, review_type)
        mined == extract_outcomes(body)
        study ==
            [ study_id |-> paper.study_id,
              title |-> paper.title,
              year |-> paper.year,
              study_design |-> design,
              sample_size |-> extract_sample_size(body),
              population |-> extract_population(body),
              outcomes |-> mined[1],
              citation |-> [ doi |-> paper.doi, pubmed_id |-> paper.pubmed_id,
                             openalex_id |-> paper.openalex_id,
                             formatted |-> format_citation(paper) ],
              abstract_excerpt |-> excerpt(OrStr(paper.abstract, OrStr(body, paper.title))),
              preprint_status |->
                  IF paper.preprint_status # None THEN paper.preprint_status[1]
                  ELSE IF paper.source = "arxiv" THEN "Preprint" ELSE "Peer-reviewed",
              review_type |-> review_type,
              source |-> paper.source,
              citationCount |-> paper.citationCount,
              pdf_url |-> paper.pdf_url,
              landing_page_url |-> paper.landing_page_url ]
        diagnostics ==
            [ engine |-> engine,
              used_pdf |-> (engine = "pdf"),
              fallback_reason |-> fallback_reason,
              parse_error |-> parse_err,
              outcome_confidence |-> mined[2] ]
    IN  [ study_id |-> paper.study_id, study |-> Some(study),
          diagnostics |-> Some(diagnostics), error |-> None ]

\* an error item that also carries diagnostics of the failed attempt
ErrorItemWithDiagnostics(paper, msg) ==
    [ study_id |-> paper.study_id, study |-> None,
      diagnostics |-> Some([ engine |-> "abstract", used_pdf |-> FALSE,
                             fallback_reason |-> Some(Str("pdf_fallback")),
                             parse_error |-> Some(Slice200(msg)),
                             outcome_confidence |-> <<>> ]),
      error |-> Some(Slice200(msg)) ]

\* ExtractionItemModel(study_id=paper.study_id, error=str(exc)[:200])
ErrorItem(paper, msg) ==
    [study_id |-> paper.study_id, study |-> None, diagnostics |-> None, error |-> Some(Slice200(msg))]

\* Python truthiness of paper.pdf_url: neither None nor ""
HasPdfUrl(paper) == paper.pdf_url # None /\ paper.pdf_url[1] # Url("", <<>>, "")

\* fallback_reason=parse_error or None: no reason without an error code
FallbackReasonOnlyErrors(paper, parse_err) ==
    IF TruthyStr(parse_err) THEN parse_err ELSE None

\* "missing_pdf_url" if not paper.pdf_url else "pdf_fallback": parse_error unused
FallbackReasonGeneric(paper, parse_err) ==
    IF ~HasPdfUrl(paper) THEN Some(Str("missing_pdf_url")) ELSE Some(Str("pdf_fallback"))

\* parse_error or ("missing_pdf_url" if not paper.pdf_url else "pdf_fallback")
FallbackReason(paper, parse_err) ==
    IF TruthyStr(parse_err) THEN parse_err
    ELSE IF ~HasPdfUrl(paper) THEN Some(Str("missing_pdf_url"))
    ELSE Some(Str("pdf_fallback"))

\* max(1000, min(60000, int(request.timeout_ms))): no default for 0
ClampTimeoutMsNoDefault(ms) == Max(1000, Min(60000, ms))

\* max(1000, min(60000, int(request.timeout_ms or 12000)))
ClampTimeoutMs(ms) == Max(1000, Min(60000, IF ms # 0 THEN ms ELSE 12000))

\* max(1, min(60, timeout_ms // 1000 or DEFAULT_TIMEOUT_SECONDS))
TimeoutSeconds(ms) ==
    Max(1, Min(60, IF ms \div 1000 # 0 THEN ms \div 1000 ELSE DEFAULT_TIMEOUT_SECONDS))

Paper == request.papers[idx]

\* history: one more step of the current paper, and what the environment gave
Step(ev) == [hist EXCEPT ![idx].events = @ \cup {ev}]
StepEnv(ev, kind, msg, txt) ==
    [hist EXCEPT ![idx] = [ events |-> @.events \cup {ev},
                            env |-> [kind |-> kind, msg |-> msg, text |-> txt] ]]
NoHist == [events |-> {}, env |-> [kind |-> "none", msg |-> Str(""), text |-> <<>>]]

\* for paper in request.papers: the next paper, or the return after the last
AfterItem(i) == IF i + 1 > Len(request.papers) THEN "done" ELSE "start"
\* the except clause of the loop re-raising: the batch ends at the failing paper
AfterErrorAborts(i) == "done"
AfterError(i) == AfterItem(i)

\* extract_one is left: its locals are gone
LocalsGone ==
    /\ timeout_seconds' = 0
    /\ parse_error' = None
    /\ cur_url' = None
    /\ hops' = 0
    /\ pdf_bytes' = None
    /\ pdf_text' = <<>>
    /\ sent' = None

\* results.insert(0, item)
EmitFirst(item) ==
    /\ results' = <<item>> \o results
    /\ idx' = idx + 1
    /\ LocalsGone

\* results.append(item)
Emit(item) ==
    /\ results' = Append(results, item)
    /\ idx' = idx + 1
    /\ LocalsGone

\* extract_studies_batch up to the for loop
BatchStart ==
    /\ pc = "batch"
    /\ results' = <<>>
    /\ timeout_ms' = ClampTimeoutMs(request.timeout_ms)
    /\ idx' = 1
    /\ pc' = IF request.papers = <<>> THEN "done" ELSE "start"
    /\ UNCHANGED <<request, timeout_seconds, parse_error, cur_url, hops, pdf_bytes, pdf_text, sent, hist, fnvars, svcvars>>

\* extract_one with parse_error kept at module level: a call starts with the
\* parse_error the call before it ended with
StartPaperStale ==
    /\ pc = "start"
    /\ timeout_seconds' = TimeoutSeconds(timeout_ms)
    /\ parse_error' = IF idx > 1 /\ results[idx - 1].diagnostics # None
                      THEN results[idx - 1].diagnostics[1].parse_error ELSE None
    /\ pdf_bytes' = None
    /\ pdf_text' = <<>>
    /\ cur_url' = None
    /\ hops' = 0
    /\ IF HasPdfUrl(Paper)
       THEN pc' = "validate" /\ hist' = Step("start")
       ELSE pc' = "fallback" /\ hist' = StepEnv("start", "no_url", Str(""), <<>>)
    /\ UNCHANGED <<request, idx, results, timeout_ms, sent, fnvars, svcvars>>

\* extract_one up to "if paper.pdf_url"
StartPaper ==
    /\ pc = "start"
    /\ timeout_seconds' = TimeoutSeconds(timeout_ms)
    /\ parse_error' = None
    /\ pdf_bytes' = None
    /\ pdf_text' = <<>>
    /\ cur_url' = None
    /\ hops' = 0
    /\ IF HasPdfUrl(Paper)
       THEN pc' = "validate" /\ hist' = Step("start")
       ELSE pc' = "fallback" /\ hist' = StepEnv("start", "no_url", Str(""), <<>>)
    /\ UNCHANGED <<request, idx, results, timeout_ms, sent, fnvars, svcvars>>

\* reason = validate_pdf_url(paper.pdf_url), under the DNS answer of the moment.
\* The call is outside the try of extract_one: when it raises, extract_one
\* raises and the except clause of extract_studies_batch appends the error item.
Validate ==
    /\ pc = "validate"
    /\ \E dns \in PipeDns :
         LET checked == validate_pdf_url(Paper.pdf_url[1], dns) IN
         IF checked.raised
         THEN /\ Emit(ErrorItem(Paper, checked.msg))
              /\ pc' = AfterError(idx)
              /\ hist' = StepEnv("validate_raises", "raised", checked.msg, <<>>)
              /\ UNCHANGED <<request, timeout_ms, fnvars, svcvars>>
         ELSE IF checked.value # None
         THEN /\ parse_error' = checked.value
              /\ pc' = "fallback"
              /\ hist' = StepEnv("rejected", "rejected", checked.value[1], <<>>)
              /\ UNCHANGED <<request, idx, results, timeout_ms, timeout_seconds, cur_url,
                             hops, pdf_bytes, pdf_text, sent, fnvars, svcvars>>
         ELSE /\ pc' = "connect"
              /\ cur_url' = Paper.pdf_url
              /\ hist' = Step("accepted")
              /\ UNCHANGED <<request, idx, results, timeout_ms, timeout_seconds, parse_error,
                             hops, pdf_bytes, pdf_text, sent, fnvars, svcvars>>

\* except Exception as exc: parse_error = str(exc)[:200]
Except(ev, msg) ==
    /\ parse_error' = Some(Slice200(msg))
    /\ pc' = "fallback"
    /\ hist' = StepEnv(ev, "exception", msg, <<>>)

\* download_pdf_bytes: the client resolves the host of the URL and sends the
\* GET to the address it got; a host that does not resolve is a ConnectError.
Connect ==
    /\ pc = "connect"
    /\ \E dns \in PipeDns :
         LET host == urlparse(cur_url[1]).value.hostname[1]
             literal == ip_address(host).parsed
         IN  IF ~literal /\ ~dns.ok
             THEN /\ Except("connect_error", Str("[Errno -2] Name or service not known"))
                  /\ sent' = sent
             ELSE /\ sent' = Some([ url |-> cur_url[1],
                                    addr |-> IF literal THEN host ELSE dns.addrs[1] ])
                  /\ pc' = "response"
                  /\ parse_error' = parse_error
                  /\ hist' = Step("request")
    /\ UNCHANGED <<request, idx, results, timeout_ms, timeout_seconds, cur_url, hops, pdf_bytes, pdf_text, fnvars, svcvars>>

\* follow_redirects=True: a 3xx answer sends the client to the Location
FollowRedirect ==
    /\ pc = "response"
    /\ hops < MaxRedirects
    /\ \E target \in RedirectTargets :
         /\ cur_url' = Some(target)
         /\ hops' = hops + 1
         /\ pc' = "connect"
    /\ UNCHANGED <<request, idx, results, timeout_ms, timeout_seconds, parse_error, pdf_bytes, pdf_text, sent, hist, fnvars, svcvars>>

TooManyRedirects ==
    /\ pc = "response"
    /\ hops = MaxRedirects
    /\ Except("too_many_redirects", Str("Exceeded maximum allowed redirects."))
    /\ UNCHANGED <<request, idx, results, timeout_ms, timeout_seconds, cur_url, hops, pdf_bytes, pdf_text, sent, fnvars, svcvars>>

\* a transport error or timeout, or response.raise_for_status()
FetchRaises ==
    /\ pc = "response"
    /\ \E msg \in ExcMessages : Except("fetch_error", msg)
    /\ UNCHANGED <<request, idx, results, timeout_ms, timeout_seconds, cur_url, hops, pdf_bytes, pdf_text, sent, fnvars, svcvars>>

\* a 2xx answer: the chunk loop of download_pdf_bytes
Download ==
    /\ pc = "response"
    /\ \E body \in Bodies :
         IF download_pdf_bytes(body).raised
         THEN /\ Except("too_large", Str("pdf_too_large"))
              /\ pdf_bytes' = pdf_bytes
         ELSE /\ pdf_bytes' = Some(body)
              /\ pc' = "header"
              /\ parse_error' = parse_error
              /\ hist' = Step("downloaded")
    /\ UNCHANGED <<request, idx, results, timeout_ms, timeout_seconds, cur_url, hops, pdf_text, sent, fnvars, svcvars>>

\* the bytes go to extract_pdf_text whatever their first four bytes are
CheckHeaderSkipped ==
    /\ pc = "header"
    /\ pc' = "parse" /\ parse_error' = parse_error /\ hist' = Step("header_ok")
    /\ UNCHANGED <<request, idx, results, timeout_ms, timeout_seconds, cur_url, hops, pdf_bytes, pdf_text, sent, fnvars, svcvars>>

\* if not pdf_bytes.startswith(b"%PDF"): raise ValueError("invalid_pdf_header")
CheckHeader ==
    /\ pc = "header"
    /\ IF ~pdf_bytes[1].magic
       THEN Except("bad_header", Str("invalid_pdf_header"))
       ELSE pc' = "parse" /\ parse_error' = parse_error /\ hist' = Step("header_ok")
    /\ UNCHANGED <<request, idx, results, timeout_ms, timeout_seconds, cur_url, hops, pdf_bytes, pdf_text, sent, fnvars, svcvars>>

\* text = extract_pdf_text(pdf_bytes); if text: ...; parse_error = "empty_pdf_text"
Parse ==
    /\ pc = "parse"
    /\ LET read == extract_pdf_text(pdf_bytes[1])
           ev == IF read.secondary THEN "primary_secondary" ELSE "primary"
       IN  IF read.raised
           THEN /\ Except(ev, pdf_bytes[1].secondary.error)
                /\ pdf_text' = pdf_text
           ELSE IF read.text # <<>>
           THEN /\ pdf_text' = read.text
                /\ pc' = "build_pdf"
                /\ parse_error' = parse_error
                /\ hist' = StepEnv(ev, "text", Str(""), read.text)
           ELSE /\ pdf_text' = read.text
                /\ pc' = "fallback"
                /\ parse_error' = Some(Str("empty_pdf_text"))
                /\ hist' = StepEnv(ev, "empty_text", Str(""), <<>>)
    /\ UNCHANGED <<request, idx, results, timeout_ms, timeout_seconds, cur_url, hops, pdf_bytes, sent, fnvars, svcvars>>

\* return build_study(paper, text, engine="pdf")
BuildPdf ==
    /\ pc = "build_pdf"
    /\ Emit(build_study(Paper, pdf_text, "pdf", None, None))
    /\ pc' = AfterItem(idx)
    /\ hist' = Step("build_pdf")
    /\ UNCHANGED <<request, timeout_ms, fnvars, svcvars>>

\* return build_study(paper, paper.abstract or paper.title, engine="abstract", ...)
Fallback ==
    /\ pc = "fallback"
    /\ Emit(build_study(Paper, OrStr(Paper.abstract, Paper.title), "abstract",
                        FallbackReason(Paper, parse_error), parse_error))
    /\ pc' = AfterItem(idx)
    /\ hist' = Step("build_abstract")
    /\ UNCHANGED <<request, timeout_ms, fnvars, svcvars>>

\* ------------------------------------------------------------------ specifications

\* the download service before its first request
SvcIdle ==
    /\ tasks = <<>>
    /\ handler = [h \in Handlers |-> "idle"]
    /\ thread = [t \in TaskIds |-> "none"]
    /\ issued = 0
    /\ response = NoResponse

FnIdle == arg = <<>> /\ ret = <<>>

PipeIdle ==
    /\ request = [papers |-> <<>>, timeout_ms |-> 0]
    /\ pc = "idle"
    /\ idx = 0
    /\ results = <<>>
    /\ timeout_ms = 0
    /\ timeout_seconds = 0
    /\ parse_error = None
    /\ cur_url = None
    /\ hops = 0
    /\ pdf_bytes = None
    /\ pdf_text = <<>>
    /\ sent = None
    /\ hist = <<>>
    /\ SvcIdle

\* the state at the call of extract_studies_batch
Called ==
    /\ pc = "batch"
    /\ idx = 0
    /\ results = <<>>
    /\ timeout_ms = 0
    /\ timeout_seconds = 0
    /\ parse_error = None
    /\ cur_url = None
    /\ hops = 0
    /\ pdf_bytes = None
    /\ pdf_text = <<>>
    /\ sent = None
    /\ hist = [k \in 1..Len(request.papers) |-> NoHist]
    /\ FnIdle
    /\ SvcIdle

\* One batch request, from the call of extract_studies_batch to its return.
Init == request \in Requests /\ Called

Next ==
    \/ BatchStart
    \/ StartPaper
    \/ Validate
    \/ Connect
    \/ FollowRedirect
    \/ TooManyRedirects
    \/ FetchRaises
    \/ Download
    \/ CheckHeader
    \/ Parse
    \/ BuildPdf
    \/ Fallback

Spec == Init /\ [][Next]_vars

\* The batch pipeline on the papers whose errors have long messages: a URL that
\* is fetched (the transport may raise with 250 characters) and a URL on which
\* validate_pdf_url raises with 348 characters.
UrlLongBracket == Url("https", LongBracketedHost, "/a.pdf")
ErrorPapers ==
    { MkPaper("s-1", TitleTrial, AbstractTrial, Some(UrlPublic)),
      MkPaper("s-2", TitleTrial, AbstractTrial, Some(UrlLongBracket)) }
ErrorRequests == [papers : SeqsUpTo(ErrorPapers, MaxPapers), timeout_ms : TimeoutInputs]

ErrorInit == request \in ErrorRequests /\ Called

ErrorSpec == ErrorInit /\ [][Next]_vars

\* The batch pipeline on batches that hold the same paper twice, or a paper
\* after a different one, under two timeouts.
RerunPapers ==
    { MkPaper("s-1", <<"polysomnography">>, <<"vs", " ", "cohort">>, None),
      MkPaper("s-2", <<"polysomnography">>, <<"vs", " ", "cohort">>, Some(UrlPublic)) }
RerunRequests == [papers : SeqsUpTo(RerunPapers, MaxPapers), timeout_ms : {0, 5000}]

RerunInit == request \in RerunRequests /\ Called

RerunSpec == RerunInit /\ [][Next]_vars

\* ------------------------------------------------------------------ function specifications

\* The outcome miner applied to one text.
MinerInit == arg \in Texts /\ ret = <<>> /\ PipeIdle

ApplyExtractOutcomes ==
    /\ ret = <<>>
    /\ ret' = <<extract_outcomes(arg)>>
    /\ UNCHANGED <<arg, pipevars, svcvars>>

MinerNext == ApplyExtractOutcomes

MinerSpec == MinerInit /\ [][MinerNext]_vars

\* The URL policy applied to one URL under one DNS answer.
Schemes == {"", "http", "https", "HTTPS", "ftp"}

Hosts ==
    { <<>>, <<"example", "org">>, <<"localhost">>, <<"LOCALHOST">>, <<"metadata">>,
      <<"metadata", "google", "internal">>, <<"Printer", "LOCAL">>, <<"", "local">>,
      <<"local">>, <<"db", "internal">>, <<"93", "184", "216", "34">>,
      <<"10", "0", "0", "1">>, <<"127", "0", "0", "1">>, <<"169", "254", "169", "254">>,
      <<"240", "0", "0", "1">>, <<"224", "0", "0", "1">>, <<"[">>, <<"a", "", "b">> }

Addrs ==
    { <<"93", "184", "216", "34">>, <<"10", "0", "0", "1">>, <<"127", "0", "0", "1">>,
      <<"169", "254", "169", "254">>, <<"240", "0", "0", "1">>, <<"224", "0", "0", "1">>,
      <<"fe80::1%eth0">> }

DnsAnswers == {DnsFail} \cup {DnsOk(a) : a \in SeqsUpTo(Addrs, MaxAddrs)}

PolicyInit ==
    /\ arg \in [url : {Url(sc, h, "/a.pdf") : sc \in Schemes, h \in Hosts}, dns : DnsAnswers]
    /\ ret = <<>>
    /\ PipeIdle

ApplyValidatePdfUrl ==
    /\ ret = <<>>
    /\ ret' = <<[fn |-> "validate_pdf_url", result |-> validate_pdf_url(arg.url, arg.dns)]>>
    /\ UNCHANGED <<arg, pipevars, svcvars>>

ApplyIsPrivateHost ==
    /\ ret = <<>>
    /\ ~urlparse(arg.url).raised
    /\ urlparse(arg.url).value.hostname # None
    /\ ret' = <<[fn |-> "is_private_host", result |-> is_private_host(arg.url.host, arg.dns)]>>
    /\ UNCHANGED <<arg, pipevars, svcvars>>

PolicyNext == ApplyValidatePdfUrl \/ ApplyIsPrivateHost

PolicySpec == PolicyInit /\ [][PolicyNext]_vars

\* The chunk loop of download_pdf_bytes on a body of arg bytes, a chunk at a
\* time; ret holds the locals of the loop: the chunks read, the running total
\* and whether the call is reading, has returned the bytes or has raised
\* ValueError("pdf_too_large").
BodyLengths ==
    { 0, 100, 3 * ChunkSize + 100, MAX_PDF_BYTES - ChunkSize, MAX_PDF_BYTES - 1,
      MAX_PDF_BYTES, MAX_PDF_BYTES + 1, MAX_PDF_BYTES + ChunkSize,
      MAX_PDF_BYTES + 3 * ChunkSize + 5 }

DownloadInit == arg \in BodyLengths /\ ret = <<>> /\ PipeIdle

\* total = 0; chunks = []
BeginDownload ==
    /\ ret = <<>>
    /\ ret' = <<[fn |-> "download_pdf_bytes", read |-> 0, total |-> 0, status |-> "reading"]>>
    /\ UNCHANGED <<arg, pipevars, svcvars>>

\* total += len(chunk); if total > MAX_PDF_BYTES: raise; chunks.append(chunk)
ReadChunk ==
    /\ ret # <<>> /\ ret[1].fn = "download_pdf_bytes" /\ ret[1].status = "reading"
    /\ ret[1].read < NChunks(arg)
    /\ LET total == ret[1].total + ChunkLen(arg, ret[1].read + 1) IN
       ret' = <<[ fn |-> "download_pdf_bytes", read |-> ret[1].read + 1, total |-> total,
                  status |-> IF Exceeds(total) THEN "raised" ELSE "reading" ]>>
    /\ UNCHANGED <<arg, pipevars, svcvars>>

\* the stream is exhausted: return b"".join(chunks)
EndOfStream ==
    /\ ret # <<>> /\ ret[1].fn = "download_pdf_bytes" /\ ret[1].status = "reading"
    /\ ret[1].read = NChunks(arg)
    /\ ret' = <<[ret[1] EXCEPT !.status = "returned"]>>
    /\ UNCHANGED <<arg, pipevars, svcvars>>

DownloadNext == BeginDownload \/ ReadChunk \/ EndOfStream

DownloadSpec == DownloadInit /\ [][DownloadNext]_vars

\* The two timeout computations applied to one request.timeout_ms: the clamp
\* of extract_studies_batch, then the seconds of extract_one on its result.
MaxTimeoutMs == 65000
TimeoutValues ==
    {ms \in -2000..MaxTimeoutMs : ms % 250 = 0 \/ ms % 1000 \in {1, 999}}

TimeoutInit == arg \in TimeoutValues /\ ret = <<>> /\ PipeIdle

ApplyClampTimeoutMs ==
    /\ ret = <<>>
    /\ ret' = <<[fn |-> "extract_studies_batch", timeout_ms |-> ClampTimeoutMs(arg)]>>
    /\ UNCHANGED <<arg, pipevars, svcvars>>

ApplyTimeoutSeconds ==
    /\ ret # <<>> /\ ret[1].fn = "extract_studies_batch"
    /\ ret' = <<[ fn |-> "extract_one", timeout_ms |-> ret[1].timeout_ms,
                  timeout_seconds |-> TimeoutSeconds(ret[1].timeout_ms) ]>>
    /\ UNCHANGED <<arg, pipevars, svcvars>>

TimeoutNext == ApplyClampTimeoutMs \/ ApplyTimeoutSeconds

TimeoutSpec == TimeoutInit /\ [][TimeoutNext]_vars

\* The document reader applied to one PDF, then the text test of extract_one.
\* A PDF is what its pages give each parser: a document of n pages, all empty
\* but page p, whose text is t; a parser that raises has read the pages given.
PageCounts == {0, 1, 2, MAX_PDF_PAGES, MAX_PDF_PAGES + 1}
TextPages == {0, 1, 2, MAX_PDF_PAGES, MAX_PDF_PAGES + 1}
PageStrings == {<<"polysomnography">>, <<" ", "\n">>}
Document(n, p, t) == [i \in 1..n |-> IF i = p THEN t ELSE <<>>]
Documents == {Document(n, p, t) : n \in PageCounts, p \in TextPages, t \in PageStrings}
ParserRuns ==
    {Parsed(d) : d \in Documents} \cup {Raises(d) : d \in {e \in Documents : Len(e) <= 2}}

ReaderInit ==
    /\ arg \in [primary : ParserRuns, secondary : {WithError(r, PdfReadError) : r \in ParserRuns}]
    /\ ret = <<>>
    /\ PipeIdle

ApplyExtractPdfText ==
    /\ ret = <<>>
    /\ ret' = <<[fn |-> "extract_pdf_text", result |-> extract_pdf_text(arg)]>>
    /\ UNCHANGED <<arg, pipevars, svcvars>>

\* extract_one after extract_pdf_text: if text: return build_study(..., "pdf");
\* parse_error = "empty_pdf_text"; except Exception as exc: str(exc)[:200]
ApplyTextCheck ==
    /\ ret # <<>> /\ ret[1].fn = "extract_pdf_text"
    /\ LET read == ret[1].result IN
       ret' = <<[ fn |-> "extract_one", result |-> read,
                  engine |-> IF ~read.raised /\ read.text # <<>> THEN "pdf" ELSE "abstract",
                  parse_error |-> IF read.raised THEN Some(Slice200(arg.secondary.error))
                                  ELSE IF read.text # <<>> THEN None
                                  ELSE Some(Str("empty_pdf_text")) ]>>
    /\ UNCHANGED <<arg, pipevars, svcvars>>

ReaderNext == ApplyExtractPdfText \/ ApplyTextCheck

ReaderSpec == ReaderInit /\ [][ReaderNext]_vars

\* score_outcome applied to one outcome: every optional field is None, "" or a
\* text, and the snippet is empty or of 15, 19, 20 or 34 characters.
OptionalTexts == {None, Some(<<>>), Some(<<"polysomnography">>)}
Snippets ==
    { <<>>, <<"polysomnography">>, <<"polysomnography", " ", "vs", " ">>,
      <<"polysomnography", " ", "OR=2">>,
      <<"polysomnography", " ", "vs", " ", "polysomnography">> }
OutcomeInputs ==
    [ outcome_measured : {<<"polysomnography">>}, key_result : OptionalTexts,
      citation_snippet : Snippets, intervention : OptionalTexts,
      comparator : OptionalTexts, effect_size : OptionalTexts, p_value : OptionalTexts ]

ScoreInit == arg \in OutcomeInputs /\ ret = <<>> /\ PipeIdle

ApplyScoreOutcome ==
    /\ ret = <<>>
    /\ ret' = <<score_outcome(arg)>>
    /\ UNCHANGED <<arg, pipevars, svcvars>>

ScoreNext == ApplyScoreOutcome

ScoreSpec == ScoreInit /\ [][ScoreNext]_vars

\* The two classifiers applied to one text, and build_study applied to a
\* paper that has the text as its abstract.
MaxClassLen == 5
ClassWords ==
    {"review", "reviews", "systematic", "meta-analysis", "randomized", "cohort", "survey"}
ClassTexts == {s \in SeqsUpTo(ClassWords \cup {" "}, MaxClassLen) : WellFormed(s)}
TitlePlain == <<"polysomnography">>

ClassifierInit == arg \in ClassTexts /\ ret = <<>> /\ PipeIdle

ApplyClassifyStudyDesign ==
    /\ ret = <<>>
    /\ ret' = <<[fn |-> "classify_study_design", result |-> classify_study_design(arg)]>>
    /\ UNCHANGED <<arg, pipevars, svcvars>>

ApplyClassifyReviewType ==
    /\ ret = <<>>
    /\ ret' = <<[fn |-> "classify_review_type", result |-> classify_review_type(arg)]>>
    /\ UNCHANGED <<arg, pipevars, svcvars>>

ApplyBuildStudy ==
    /\ ret = <<>>
    /\ ret' = <<[ fn |-> "build_study",
                  result |-> build_study(MkPaper("s-1", TitlePlain, arg, None), <<>>,
                                         "abstract", Some(Str("missing_pdf_url")), None) ]>>
    /\ UNCHANGED <<arg, pipevars, svcvars>>

ClassifierNext == ApplyClassifyStudyDesign \/ ApplyClassifyReviewType \/ ApplyBuildStudy

ClassifierSpec == ClassifierInit /\ [][ClassifierNext]_vars

\* extract_sample_size applied to one text, normalized as build_study passes it.
SampleTokens == {"n=120", "n=01", "240", "participants", "polysomnography", " ", "."}
SampleTexts ==
    {s \in SeqsUpTo(SampleTokens, MaxTextLen) : WellFormed(s) /\ normalize_whitespace(s) = s}

SampleInit == arg \in SampleTexts /\ ret = <<>> /\ PipeIdle

ApplyExtractSampleSize ==
    /\ ret = <<>>
    /\ ret' = <<extract_sample_size(arg)>>
    /\ UNCHANGED <<arg, pipevars, svcvars>>

SampleNext == ApplyExtractSampleSize

SampleSpec == SampleInit /\ [][SampleNext]_vars

\* abstract_excerpt of build_study for one paper: excerpt applied to
\* paper.abstract or text or paper.title. The texts are long enough to be cut,
\* and a cut at 419 characters falls between two tokens.
LongTokens == {"a word of 400 letters", "a word of 18 letters", "vs", " ", "."}
CutsBetweenTokens(s, n) ==
    StrLen(s) <= n \/ \E k \in 0..Len(s) : StrLen(SubSeq(s, 1, k)) = n
ExcerptTexts ==
    {s \in SeqsUpTo(LongTokens, MaxTextLen) :
        CutsBetweenTokens(normalize_whitespace(s), 419)}
LongText == <<"a word of 400 letters", " ", "a word of 18 letters", " ", "vs">>

ExcerptInit ==
    /\ arg \in [abstract : ExcerptTexts, text : {<<>>, LongText}, title : {<<"vs">>, LongText}]
    /\ ret = <<>>
    /\ PipeIdle

ApplyExcerpt ==
    /\ ret = <<>>
    /\ ret' = <<excerpt(OrStr(arg.abstract, OrStr(arg.text, arg.title)))>>
    /\ UNCHANGED <<arg, pipevars, svcvars>>

ExcerptNext == ApplyExcerpt

ExcerptSpec == ExcerptInit /\ [][ExcerptNext]_vars

\* ------------------------------------------------------------------ download service (main.py)

MAX_CONCURRENT_TASKS == 5
\* MAX_TASKS_IN_MEMORY, 100 in main.py: the model runs the same cleanup with a
\* table of this size
MaxTasksInMemory == 5

valid_types == {"doi", "pmid", "title"}
PaperTypes == {"doi", "isbn"}

\* [t for t in tasks.values() if t["status"] in ["pending", "processing"]]
active_tasks(tbl) == {t \in DOMAIN tbl : tbl[t].status \in {"pending", "processing"}}

\* handlers run on threads: no order between the calls
EventLoopAlwaysFree == TRUE

\* download_paper is a coroutine without an await: the event loop runs one call
\* from its first line to its return before it starts the next
EventLoopFree == \A h \in Handlers : handler[h] = "idle"

\* a cleanup loop that removes the oldest records whatever their status
RemovableWhateverStatus(rec) == TRUE

\* the test of the cleanup loop: the status is neither pending nor processing
Removable(rec) == rec.status \notin {"pending", "processing"}

\* int(MAX_TASKS_IN_MEMORY * 0.2)
num_to_remove == (MaxTasksInMemory * 2) \div 10

Oldest(ids) == CHOOSE t \in ids : \A u \in ids : t <= u

\* the loop over sorted_tasks: in created_at order (the order of the ids), pop
\* the removable records until num_to_remove of them are gone
RECURSIVE CleanupLoop(_, _, _)
CleanupLoop(tbl, rest, removed_count) ==
    IF rest = {} \/ removed_count >= num_to_remove THEN tbl
    ELSE LET t == Oldest(rest) IN
         IF Removable(tbl[t])
         THEN CleanupLoop([u \in DOMAIN tbl \ {t} |-> tbl[u]], rest \ {t}, removed_count + 1)
         ELSE CleanupLoop(tbl, rest \ {t}, removed_count)

Cleanup(tbl) ==
    IF Cardinality(DOMAIN tbl) >= MaxTasksInMemory
    THEN CleanupLoop(tbl, DOMAIN tbl, 0)
    ELSE tbl

task_record(task_id, paper_type) ==
    [ task_id |-> task_id, status |-> "pending", created_at |-> task_id,
      paper_type |-> paper_type, completed_at |-> None, filename |-> None, error |-> None ]

\* tasks[task_id].update({...}) under "if task_id in tasks"
UpdateTask(tbl, t, status, filename, error) ==
    IF t \in DOMAIN tbl
    THEN [tbl EXCEPT ![t] = [@ EXCEPT !.status = status, !.completed_at = Some("utcnow"),
                                      !.filename = filename, !.error = error]]
    ELSE tbl

Respond(paper_type, code) == [paper_type |-> paper_type, status_code |-> code]

\* download_paper, a paper_type outside valid_types: 400
RejectPaperType(h) ==
    /\ EventLoopFree
    /\ handler[h] = "idle"
    /\ \E paper_type \in PaperTypes \ valid_types :
           response' = Respond(paper_type, 400)
    /\ UNCHANGED <<tasks, handler, thread, issued, pipevars, fnvars>>

\* download_paper, the first "with tasks_lock": the 429 test and the cleanup
CheckLimits(h) ==
    /\ EventLoopFree
    /\ handler[h] = "idle"
    /\ issued + Cardinality({g \in Handlers : handler[g] # "idle"}) < MaxRequests
    /\ \E paper_type \in PaperTypes \cap valid_types :
           IF Cardinality(active_tasks(tasks)) >= MAX_CONCURRENT_TASKS
           THEN /\ response' = Respond(paper_type, 429)
                /\ UNCHANGED <<tasks, handler>>
           ELSE /\ tasks' = Cleanup(tasks)
                /\ handler' = [handler EXCEPT ![h] = paper_type]
                /\ UNCHANGED response
    /\ UNCHANGED <<thread, issued, pipevars, fnvars>>

\* download_paper: uuid4, the task record, and the second "with tasks_lock"
InsertTask(h) ==
    /\ handler[h] \in valid_types
    /\ issued' = issued + 1
    /\ tasks' = [t \in DOMAIN tasks \cup {issued'} |->
                    IF t = issued' THEN task_record(issued', handler[h]) ELSE tasks[t]]
    /\ handler' = [handler EXCEPT ![h] = <<issued', handler[h]>>]
    /\ UNCHANGED <<thread, response, pipevars, fnvars>>

\* download_paper: thread.start() and the 202 response
StartThread(h) ==
    /\ handler[h] \in TaskIds \X valid_types
    /\ thread' = [thread EXCEPT ![handler[h][1]] = "begin"]
    /\ response' = Respond(handler[h][2], 202)
    /\ handler' = [handler EXCEPT ![h] = "idle"]
    /\ UNCHANGED <<tasks, issued, pipevars, fnvars>>

\* download_paper_task, lines 92-94
MarkProcessing(t) ==
    /\ thread[t] = "begin"
    /\ tasks' = IF t \in DOMAIN tasks
                THEN [tasks EXCEPT ![t].status = "processing"]
                ELSE tasks
    /\ thread' = [thread EXCEPT ![t] = "downloading"]
    /\ UNCHANGED <<handler, issued, response, pipevars, fnvars>>

\* download_paper_task: scihub_download left a PDF in the task directory
ReportCompleted(t) ==
    /\ thread[t] = "downloading"
    /\ tasks' = UpdateTask(tasks, t, "completed", Some("a.pdf"), None)
    /\ thread' = [thread EXCEPT ![t] = "done"]
    /\ UNCHANGED <<handler, issued, response, pipevars, fnvars>>

\* download_paper_task: no PDF in the task directory
ReportNoFile(t) ==
    /\ thread[t] = "downloading"
    /\ tasks' = UpdateTask(tasks, t, "failed", None, Some("No PDF file was downloaded"))
    /\ thread' = [thread EXCEPT ![t] = "done"]
    /\ UNCHANGED <<handler, issued, response, pipevars, fnvars>>

\* download_paper_task: mkdir, scihub_download or the directory scan raised
ReportException(t) ==
    /\ thread[t] = "downloading"
    /\ tasks' = UpdateTask(tasks, t, "failed", None, Some("str(e)"))
    /\ thread' = [thread EXCEPT ![t] = "done"]
    /\ UNCHANGED <<handler, issued, response, pipevars, fnvars>>

ServiceInit == SvcIdle /\ PipeIdle /\ FnIdle

ServiceNext ==
    \/ \E h \in Handlers : RejectPaperType(h)
    \/ \E h \in Handlers : CheckLimits(h)
    \/ \E h \in Handlers : InsertTask(h)
    \/ \E h \in Handlers : StartThread(h)
    \/ \E t \in TaskIds : MarkProcessing(t)
    \/ \E t \in TaskIds : ReportCompleted(t)
    \/ \E t \in TaskIds : ReportNoFile(t)
    \/ \E t \in TaskIds : ReportException(t)

ServiceSpec == ServiceInit /\ [][ServiceNext]_vars

\* ------------------------------------------------------------------ properties: URL policy

\* the call has returned (it has not raised)
ValidateReturned == ret # <<>> /\ ret[1].fn = "validate_pdf_url" /\ ~ret[1].result.raised
HostCheckReturned == ret # <<>> /\ ret[1].fn = "is_private_host" /\ ~ret[1].result.raised

ReasonCodes == {"only_https_allowed", "invalid_url", "private_host_rejected"}

Literal(host) == ip_address(LowerHost(host)).parsed
ResolutionFails(host, dns) == ~Literal(host) /\ ~dns.ok
ResolvedAddrs(host, dns) ==
    IF Literal(host) THEN {LowerHost(host)}
    ELSE {dns.addrs[i] : i \in 1..Len(dns.addrs)}
BlockedName(host) ==
    \/ LowerHost(host) \in BlockedHostnames
    \/ EndsWithLabel(LowerHost(host), "local")
    \/ EndsWithLabel(LowerHost(host), "internal")

C7_NonEmptyParallel ==
    ret # <<>> =>
        LET outcomes == ret[1][1]
            confidences == ret[1][2]
        IN  /\ Len(outcomes) >= 1
            /\ Len(confidences) = Len(outcomes)
            /\ \A i \in 1..Len(outcomes) : confidences[i] = score_outcome(outcomes[i])

\* the part of C7 the empty text does not break: the two sequences are parallel
C7_Parallel ==
    ret # <<>> =>
        /\ Len(ret[1][2]) = Len(ret[1][1])
        /\ \A i \in 1..Len(ret[1][1]) : ret[1][2][i] = score_outcome(ret[1][1][i])

\* extract_outcomes has returned no outcome for a text of white space only
C7_NothingMined ==
    /\ ret # <<>>
    /\ arg = <<" ">>
    /\ ret[1] = << <<>>, <<>> >>

\* ------------------------------------------------------------------ properties: extract_one

\* the papers whose item is in the result list
Produced == 1..Len(results)

FetchEvents ==
    { "request", "connect_error", "too_many_redirects", "fetch_error", "too_large",
      "downloaded", "bad_header", "header_ok", "primary", "primary_secondary" }

\* The item of paper k is a study of one of the two engines: of the pdf engine
\* exactly when the paper has a pdf_url, the policy accepted it, the download
\* succeeded, the bytes start with %PDF and the text read is non-empty.
TwoEngines(k) ==
        LET paper == request.papers[k]
            item == results[k]
            h == hist[k]
        IN  /\ item.study # None /\ item.diagnostics # None
            /\ item.diagnostics[1].engine \in {"pdf", "abstract"}
            /\ item.diagnostics[1].used_pdf = (item.diagnostics[1].engine = "pdf")
            /\ item.diagnostics[1].engine = "pdf" <=>
                   /\ HasPdfUrl(paper)
                   /\ {"accepted", "downloaded", "header_ok"} \subseteq h.events
                   /\ h.env.kind = "text"
                   /\ h.env.text # <<>>
            /\ ~HasPdfUrl(paper) => h.events = {"start", "build_abstract"}

\* C1: for every paper, extract_one ends in one of two outcomes: the pdf
\* engine, only when a pdf_url is present, the policy accepts it, the download
\* succeeds, the bytes start with %PDF and the text read is non-empty, or the
\* abstract engine in every other case; a paper without pdf_url reaches the
\* abstract engine with no validation, fetch or parse step.
C1_TwoEngines == \A k \in Produced : TwoEngines(k)

\* what holds of C1: the two outcomes are the only ones of the papers whose
\* validation returns
C1_TwoEnginesWhenValidated ==
    \A k \in Produced : "validate_raises" \notin hist[k].events => TwoEngines(k)

\* extract_one has raised for the paper of URL "https://[": its item has no
\* engine at all
C1_NeitherEngine ==
    \E k \in Produced :
        /\ request.papers[k].pdf_url = Some(UrlMalformed)
        /\ hist[k].events = {"start", "validate_raises"}
        /\ results[k].study = None
        /\ results[k].diagnostics = None
        /\ results[k].error = Some([base |-> "Invalid IPv6 URL", len |-> 16])

\* The reason a URL is rejected for whatever DNS answers: its scheme, its
\* missing host, a blocked name or an unsafe IP literal. "" when the verdict
\* depends on the addresses the host resolves to.
StaticReason(pdf_url) ==
    IF urlparse(pdf_url).raised THEN ""
    ELSE
    LET parsed == urlparse(pdf_url).value IN
    IF parsed.scheme # "https" THEN "only_https_allowed"
    ELSE IF parsed.hostname = None THEN "invalid_url"
    ELSE IF BlockedName(pdf_url.host) THEN "private_host_rejected"
    ELSE IF Literal(pdf_url.host) /\ Unsafe(ip_address(LowerHost(pdf_url.host)))
    THEN "private_host_rejected"
    ELSE ""

C3_NoRequestToPrivateHost ==
    sent # None => is_private_host(sent[1].url.host, DnsOk(<<sent[1].addr>>)) = Returns(FALSE)

\* the request of a paper whose URL was accepted goes to the metadata address
C3_RedirectedToMetadata ==
    /\ sent # None
    /\ "accepted" \in hist[idx].events
    /\ sent[1].url = UrlMetadata
    /\ hops = 1

\* C6: every study record produced has at least one outcome, and every
\* outcome in it has a non-empty citation_snippet, whatever the paper's
\* abstract and title are.
C6_AtLeastOneOutcome ==
    \A k \in Produced :
        results[k].study # None =>
            LET outcomes == results[k].study[1].outcomes IN
            /\ Len(outcomes) >= 1
            /\ \A i \in 1..Len(outcomes) : outcomes[i].citation_snippet # <<>>

\* a titled paper with an abstract of white space has a study without outcomes
C6_StudyWithoutOutcomes ==
    \E k \in Produced :
        /\ request.papers[k].title = TitleTrial
        /\ request.papers[k].abstract = <<"\n">>
        /\ results[k].study # None
        /\ results[k].study[1].outcomes = <<>>

\* ------------------------------------------------------------------ properties: batch driver

\* C8: the result list has one item per paper, in the order of the papers,
\* and the i-th item carries the study_id of the i-th paper, error item or not.
C8_OneItemPerPaperInOrder ==
    /\ Len(results) <= Len(request.papers)
    /\ \A k \in Produced :
           /\ results[k].study_id = request.papers[k].study_id
           /\ results[k].study # None =>
                  /\ results[k].study[1].study_id = request.papers[k].study_id
                  /\ results[k].study[1].title = request.papers[k].title
                  /\ results[k].study[1].pdf_url = request.papers[k].pdf_url
    /\ pc = "done" => Len(results) = Len(request.papers)

\* a batch of two papers of different study_id has returned, the first failed
C8_ReturnedAfterFailure ==
    /\ pc = "done"
    /\ Len(request.papers) = 2
    /\ request.papers[1].study_id # request.papers[2].study_id
    /\ results[1].error # None
    /\ results[2].error = None

\* What extract_one and the except clause of the loop make of one paper, given
\* only that paper and what its own run met.
ExpectedItem(paper, env) ==
    LET fallback_text == OrStr(paper.abstract, paper.title)
        abstract_item(parse_err) ==
            build_study(paper, fallback_text, "abstract",
                        IF parse_err # None /\ parse_err[1].len > 0 THEN parse_err
                        ELSE IF HasPdfUrl(paper) THEN Some(Str("pdf_fallback"))
                        ELSE Some(Str("missing_pdf_url")),
                        parse_err)
    IN  CASE env.kind = "raised" ->
                 [ study_id |-> paper.study_id, study |-> None, diagnostics |-> None,
                   error |-> Some([base |-> env.msg.base, len |-> Min(200, env.msg.len)]) ]
          [] env.kind = "text" -> build_study(paper, env.text, "pdf", None, None)
          [] env.kind = "no_url" -> abstract_item(None)
          [] env.kind = "rejected" -> abstract_item(Some(env.msg))
          [] env.kind = "exception" ->
                 abstract_item(Some([base |-> env.msg.base, len |-> Min(200, env.msg.len)]))
          [] env.kind = "empty_text" -> abstract_item(Some(Str("empty_pdf_text")))

\* C9: when extract_one raises for a paper, the exception becomes an item with
\* only an error string, the batch goes on with the next paper, and every item
\* is what its own paper and its own run give, whatever happened to the others.
C9_PerItemIsolation ==
    /\ \A k \in Produced : results[k] = ExpectedItem(request.papers[k], hist[k].env)
    /\ \A k \in Produced :
           hist[k].env.kind = "raised" =>
               /\ results[k].study = None /\ results[k].diagnostics = None
               /\ k < Len(request.papers) => pc # "done" \/ Len(results) > k
    /\ pc = "done" => \A k \in 1..Len(request.papers) : k \in Produced

\* the first paper failed and the second has its study, of the pdf engine
C9_SiblingUnaffected ==
    /\ Len(results) = 2
    /\ hist[1].env.kind = "raised"
    /\ results[1].error # None
    /\ results[2].study # None
    /\ results[2].diagnostics[1].engine = "pdf"

\* C10: every item is of one of two shapes: study and diagnostics present and
\* error absent, or study and diagnostics absent and error present; an item
\* with an error has no study.
C10_TwoShapes ==
    \A k \in Produced :
        LET item == results[k] IN
        /\ \/ item.study # None /\ item.diagnostics # None /\ item.error = None
           \/ item.study = None /\ item.diagnostics = None /\ item.error # None
        /\ item.error # None => item.study = None

\* a batch has returned an item of each shape
C10_BothShapes ==
    /\ pc = "done"
    /\ \E k \in Produced :
           /\ results[k].error = Some([base |-> "Invalid IPv6 URL", len |-> 16])
           /\ results[k].study = None
           /\ results[k].diagnostics = None
    /\ \E k \in Produced :
           /\ results[k].error = None
           /\ results[k].study # None
           /\ results[k].diagnostics # None

\* ------------------------------------------------------------------ properties: fallback reason

\* the papers whose item is a study of the abstract engine
AbstractItems ==
    {k \in Produced : results[k].diagnostics # None
                      /\ results[k].diagnostics[1].engine = "abstract"}

\* an error or a rejection occurred on the PDF route of paper k
ErrorOccurred(k) == hist[k].env.kind \in {"rejected", "exception", "empty_text"}

\* the code of that error: the reason of the rejection, empty_pdf_text, or the
\* first 200 characters of the exception's message
ErrorCode(k) ==
    CASE hist[k].env.kind = "rejected" -> hist[k].env.msg
      [] hist[k].env.kind = "empty_text" -> Str("empty_pdf_text")
      [] hist[k].env.kind = "exception" ->
             [base |-> hist[k].env.msg.base, len |-> Min(200, hist[k].env.msg.len)]

\* C11 as stated: for every record of the abstract engine the fallback_reason
\* is the code of the fetch/parse error whenever one occurred, never the
\* generic pdf_fallback, else missing_pdf_url if no URL was given, else
\* pdf_fallback; missing_pdf_url appears only when no pdf_url was given.
C11_ErrorNeverGeneric ==
    \A k \in AbstractItems :
        LET reason == results[k].diagnostics[1].fallback_reason IN
        /\ ErrorOccurred(k) => reason = Some(ErrorCode(k)) /\ reason # Some(Str("pdf_fallback"))
        /\ ~ErrorOccurred(k) /\ ~HasPdfUrl(request.papers[k]) => reason = Some(Str("missing_pdf_url"))
        /\ ~ErrorOccurred(k) /\ HasPdfUrl(request.papers[k]) => reason = Some(Str("pdf_fallback"))
        /\ reason = Some(Str("missing_pdf_url")) => ~HasPdfUrl(request.papers[k])

\* C11: for every record of the abstract engine the fallback_reason is the
\* code of the fetch/parse error when one occurred and its code is not the
\* empty string, else missing_pdf_url if no URL was given, else pdf_fallback;
\* pdf_fallback is the reason exactly of an exception whose message is empty,
\* and missing_pdf_url appears only when no pdf_url was given.
C11_FallbackReasonPrecedence ==
    \A k \in AbstractItems :
        LET reason == results[k].diagnostics[1].fallback_reason
            coded == ErrorOccurred(k) /\ ErrorCode(k).len > 0
        IN  /\ coded => reason = Some(ErrorCode(k))
            /\ coded => results[k].diagnostics[1].parse_error = Some(ErrorCode(k))
            /\ ~coded /\ ~HasPdfUrl(request.papers[k]) => reason = Some(Str("missing_pdf_url"))
            /\ ~coded /\ HasPdfUrl(request.papers[k]) => reason = Some(Str("pdf_fallback"))
            /\ reason = Some(Str("missing_pdf_url")) => ~HasPdfUrl(request.papers[k])
            /\ reason = Some(Str("pdf_fallback")) <=>
                   hist[k].env.kind = "exception" /\ hist[k].env.msg.len = 0

\* a fetch raised an exception whose str() is empty: parse_error is "" and the
\* reason is the generic one
C11_GenericAfterError ==
    \E k \in AbstractItems :
        /\ "fetch_error" \in hist[k].events
        /\ results[k].diagnostics[1].parse_error = Some(Str(""))
        /\ results[k].diagnostics[1].fallback_reason = Some(Str("pdf_fallback"))

\* ------------------------------------------------------------------ properties: byte cap

\* the bytes of the first n chunks of a body of length bytes
PrefixBytes(length, n) == Min(length, n * ChunkSize)

\* C12: the running total is checked after each chunk: while the loop reads,
\* the total is the bytes of the chunks read and is at most 15 MiB; the call
\* raises at the first chunk that takes the total over 15 MiB, reading no
\* chunk after it and returning nothing; the bytes it returns are the whole
\* body and at most 15 MiB, a body of exactly 15 MiB included.
C12_CapOnDownload ==
    ret # <<>> =>
        LET f == ret[1]
            whole == download_pdf_bytes([runs |-> ChunkRuns(arg)])
        IN  /\ f.total = PrefixBytes(arg, f.read)
            /\ f.status = "reading" => f.total <= 15 * 1024 * 1024
            /\ f.status = "returned" =>
                   f.total = arg /\ f.total <= 15 * 1024 * 1024 /\ ~whole.raised
            /\ f.status = "raised" =>
                   /\ f.total > 15 * 1024 * 1024
                   /\ PrefixBytes(arg, f.read - 1) <= 15 * 1024 * 1024
                   /\ whole.raised /\ whole.total = f.total
            /\ arg <= 15 * 1024 * 1024 => f.status # "raised"
            /\ arg > 15 * 1024 * 1024 => f.status # "returned"

\* a body of exactly 15 MiB has been returned
C12_ExactlyCapReturned ==
    ret # <<>> /\ ret[1].status = "returned" /\ ret[1].total = 15 * 1024 * 1024

\* ------------------------------------------------------------------ properties: timeouts

\* C13: for every integer timeout_ms of the request, zero, negative, below
\* 1000 and above 60000 included, the batch driver clamps it to [1000, 60000]
\* (12000 when it is 0, the value itself when it is in the range), and the
\* timeout in seconds is in [1, 60] and is the clamped value divided by 1000,
\* rounded down.
C13_TimeoutClamped ==
    ret # <<>> =>
        LET ms == ret[1].timeout_ms IN
        /\ ms >= 1000 /\ ms <= 60000
        /\ arg = 0 => ms = 12000
        /\ arg >= 1000 /\ arg <= 60000 => ms = arg
        /\ arg # 0 /\ arg < 1000 => ms = 1000
        /\ arg > 60000 => ms = 60000
        /\ ret[1].fn = "extract_one" =>
               LET seconds == ret[1].timeout_seconds IN
               /\ seconds >= 1 /\ seconds <= 60
               /\ seconds * 1000 <= ms /\ ms < (seconds + 1) * 1000

\* a request with timeout_ms = 0 has run with the default of 12 seconds
C13_ZeroTakesDefault ==
    /\ arg = 0 /\ ret # <<>> /\ ret[1].fn = "extract_one"
    /\ ret[1].timeout_ms = 12000 /\ ret[1].timeout_seconds = 12

\* ------------------------------------------------------------------ properties: header check

ParserEvents == {"primary", "primary_secondary"}

\* C14: downloaded bytes that do not start with %PDF never reach a parser:
\* the fetch fails with invalid_pdf_header before extract_pdf_text is called,
\* and the paper is produced by the abstract engine with parse_error (and
\* fallback_reason) invalid_pdf_header; a parser runs only on bytes whose
\* header was accepted.
C14_HeaderBeforeParser ==
    /\ pdf_bytes # None /\ ~pdf_bytes[1].magic =>
           /\ pc \in {"header", "fallback"}
           /\ hist[idx].events \cap ParserEvents = {}
           /\ pc = "fallback" => /\ parse_error = Some(Str("invalid_pdf_header"))
                                 /\ "bad_header" \in hist[idx].events
    /\ \A k \in DOMAIN hist :
           /\ hist[k].events \cap ParserEvents # {} =>
                  "header_ok" \in hist[k].events /\ "bad_header" \notin hist[k].events
           /\ "bad_header" \in hist[k].events /\ k \in Produced =>
                  /\ results[k].error = None
                  /\ results[k].diagnostics[1].engine = "abstract"
                  /\ results[k].diagnostics[1].parse_error = Some(Str("invalid_pdf_header"))
                  /\ results[k].diagnostics[1].fallback_reason = Some(Str("invalid_pdf_header"))
                  /\ results[k].diagnostics[1].used_pdf = FALSE

\* an HTML page was downloaded and its paper came out of the abstract engine
\* without a parser having run
C14_HtmlPageFallsBack ==
    \E k \in Produced :
        /\ "bad_header" \in hist[k].events
        /\ hist[k].events \cap ParserEvents = {}
        /\ results[k].diagnostics[1].parse_error = Some(Str("invalid_pdf_header"))

\* ------------------------------------------------------------------ properties: document reader

\* the non-empty page texts among the first 25 pages a parser read
First25(run) == SelectSeq(SubSeq(run.pages, 1, Min(Len(run.pages), 25)), LAMBDA t : t # <<>>)

\* the parser finished and gave a non-empty text for one of the first 25 pages
YieldsText(run) == ~run.raises /\ First25(run) # <<>>

\* C15: the secondary parser is run exactly when the primary parser raised or
\* yielded no text, whatever text the primary collected before raising being
\* discarded; both parsers read at most the first 25 pages; when neither
\* yields text the reader returns the empty string and extract_one falls back
\* with parse_error empty_pdf_text.
C15_ParserCascade ==
    ret # <<>> =>
        LET read == ret[1].result IN
        /\ read.secondary <=> (arg.primary.raises \/ ~YieldsText(arg.primary))
        /\ YieldsText(arg.primary) =>
               ~read.raised /\ read.text = normalize_whitespace(JoinLines(First25(arg.primary)))
        /\ ~YieldsText(arg.primary) /\ ~arg.secondary.raises =>
               ~read.raised /\ read.text = normalize_whitespace(JoinLines(First25(arg.secondary)))
        /\ ~YieldsText(arg.primary) /\ ~YieldsText(arg.secondary) /\ ~arg.secondary.raises =>
               read.text = <<>>
        /\ ret[1].fn = "extract_one" /\ ~read.raised /\ read.text = <<>> =>
               ret[1].engine = "abstract" /\ ret[1].parse_error = Some(Str("empty_pdf_text"))

\* the primary parser raised after collecting a page of text and the secondary
\* found text only on page 26: nothing is read and the paper falls back with
\* empty_pdf_text
C15_PartialTextDiscarded ==
    /\ ret # <<>> /\ ret[1].fn = "extract_one"
    /\ arg.primary.raises /\ First25(arg.primary) # <<>>
    /\ ~arg.secondary.raises /\ Len(arg.secondary.pages) = 26
    /\ arg.secondary.pages[26] = <<"polysomnography">>
    /\ ret[1].result.secondary /\ ret[1].result.text = <<>>
    /\ ret[1].parse_error = Some(Str("empty_pdf_text"))

\* ------------------------------------------------------------------ properties: synthesized outcome

\* no sentence of the text holds a result marker: there is no candidate
NoCandidates(text) ==
    \A i \in 1..Len(split_sentences(text)) : ~HasMarker(split_sentences(text)[i])

\* C16: for a non-empty text without any sentence holding a result marker,
\* extract_outcomes returns exactly one outcome, whose citation_snippet is
\* the first sentence cut to 280 characters and whose optional fields
\* key_result, intervention, comparator, effect_size and p_value are all
\* empty, together with the score of that outcome.
C16_SynthesizedAllEmpty ==
    ret # <<>> /\ arg # <<>> /\ NoCandidates(arg) =>
        LET outcomes == ret[1][1]
            sentences == split_sentences(arg)
        IN  /\ Len(outcomes) = 1 /\ sentences # <<>>
            /\ outcomes[1].citation_snippet = Slice(sentences[1], 280)
            /\ ~Truthy(outcomes[1].key_result)
            /\ outcomes[1].intervention = None /\ outcomes[1].comparator = None
            /\ outcomes[1].effect_size = None /\ outcomes[1].p_value = None
            /\ ret[1][2] = <<score_outcome(outcomes[1])>>

\* what holds of the synthesized outcome: for a text with a sentence and no
\* marker there is exactly one outcome, key_result and citation_snippet are
\* both the first sentence cut to 280 characters, the four other optional
\* fields are empty, and the confidence is 0.4, or 0.5 from 20 characters on
C16_SynthesizedWithKeyResult ==
    ret # <<>> /\ split_sentences(arg) # <<>> /\ NoCandidates(arg) =>
        LET outcomes == ret[1][1]
            snippet == Slice(split_sentences(arg)[1], 280)
        IN  /\ Len(outcomes) = 1
            /\ outcomes[1].citation_snippet = snippet
            /\ outcomes[1].key_result = Some(snippet)
            /\ outcomes[1].intervention = None /\ outcomes[1].comparator = None
            /\ outcomes[1].effect_size = None /\ outcomes[1].p_value = None
            /\ ret[1][2] = <<(IF StrLen(snippet) >= 20 THEN 50 ELSE 40)>>

\* the outcome synthesized for the text "polysomnography" has the sentence as
\* its key_result and the confidence 0.4
C16_KeyResultFilled ==
    /\ ret # <<>>
    /\ arg = <<"polysomnography">>
    /\ Len(ret[1][1]) = 1
    /\ ret[1][1][1].key_result = Some(<<"polysomnography">>)
    /\ ret[1][2] = <<40>>

\* ------------------------------------------------------------------ properties: confidence score

\* a field is present: neither None nor the empty string
Present(opt) == opt # None /\ opt[1] # <<>>

\* 1 for a signal that is there, 0 otherwise
Signal(b) == IF b THEN 1 ELSE 0

\* C17: in hundredths, the score of every outcome is the least of 100 and
\* 20 + 20 [key_result] + 25 [effect_size] + 20 [p_value or CI]
\* + 15 [intervention] + 15 [comparator] + 10 [citation_snippet of 20
\* characters or more]; it lies in [0, 100], and with all the signals present
\* it is exactly 100, not 125.
C17_ScoreFormula ==
    ret # <<>> =>
        LET sum == 20 + 20 * Signal(Present(arg.key_result))
                      + 25 * Signal(Present(arg.effect_size))
                      + 20 * Signal(Present(arg.p_value))
                      + 15 * Signal(Present(arg.intervention))
                      + 15 * Signal(Present(arg.comparator))
                      + 10 * Signal(StrLen(arg.citation_snippet) >= 20)
        IN  /\ ret[1] = (IF sum <= 100 THEN sum ELSE 100)
            /\ ret[1] >= 0 /\ ret[1] <= 100
            /\ sum = 125 => ret[1] = 100

\* an outcome with every signal present has been scored 1.0
C17_AllSignalsScoreOne ==
    /\ ret = <<100>>
    /\ Present(arg.key_result) /\ Present(arg.effect_size) /\ Present(arg.p_value)
    /\ Present(arg.intervention) /\ Present(arg.comparator)
    /\ StrLen(arg.citation_snippet) >= 20

\* ------------------------------------------------------------------ properties: classifiers

DesignReturned == ret # <<>> /\ ret[1].fn = "classify_study_design"

\* the text has the word as a word of its own
HasWord(text, word) == \E i \in 1..Len(text) : text[i] = word

\* the text mentions "review": the letters are in it, in "review" or "reviews"
MentionsReview(text) == HasWord(text, "review") \/ HasWord(text, "reviews")

\* the text contains "systematic review", as in "systematic reviews"
ContainsSystematicReview(text) ==
    \E i \in 1..(Len(text) - 2) :
        text[i] = "systematic" /\ text[i + 1] = " " /\ text[i + 2] \in {"review", "reviews"}

\* C18: classify_study_design returns the label of the first keyword group
\* that matches, in the order review, RCT, cohort, cross-sectional, else
\* unknown; and every text that mentions "review" (as one containing
\* "systematic review" does) and "randomized" is classified review, never RCT.
C18_ReviewBeatsRandomized ==
    DesignReturned =>
        /\ ret[1].result \in {"review", "RCT", "cohort", "cross-sectional", "unknown"}
        /\ ret[1].result = "RCT" => HasWord(arg, "randomized")
        /\ ret[1].result = "cohort" => HasWord(arg, "cohort") /\ ~HasWord(arg, "randomized")
        /\ MentionsReview(arg) /\ HasWord(arg, "randomized") => ret[1].result = "review"
        /\ ContainsSystematicReview(arg) /\ HasWord(arg, "randomized") => ret[1].result # "RCT"

\* what holds of the precedence: the label is that of the first group one of
\* whose keywords stands in the text as a whole word, in the order review,
\* RCT, cohort, cross-sectional, else unknown; "reviews" is no keyword
C18_PrecedenceByWholeWord ==
    DesignReturned =>
        LET review == HasWord(arg, "review") \/ HasWord(arg, "meta-analysis")
            rct == HasWord(arg, "randomized")
            cohort == HasWord(arg, "cohort")
            cross == HasWord(arg, "survey")
        IN  /\ review => ret[1].result = "review"
            /\ ~review /\ rct => ret[1].result = "RCT"
            /\ ~review /\ ~rct /\ cohort => ret[1].result = "cohort"
            /\ ~review /\ ~rct /\ ~cohort /\ cross => ret[1].result = "cross-sectional"
            /\ ~review /\ ~rct /\ ~cohort /\ ~cross => ret[1].result = "unknown"

\* "systematic reviews randomized" has been classified RCT
C18_PluralReviewIsRct ==
    /\ DesignReturned
    /\ arg = <<"systematic", " ", "reviews", " ", "randomized">>
    /\ ret[1].result = "RCT"

\* ------------------------------------------------------------------ properties: design upgrade

StudyBuilt == ret # <<>> /\ ret[1].fn = "build_study"

\* f"{paper.title}. {text}" of the paper build_study was applied to
Titled == TitlePlain \o <<".", " ">> \o normalize_whitespace(OrStr(arg, TitlePlain))

\* C19: no record built has study_design unknown together with a review_type
\* of Systematic review or Meta-analysis; the design is review when the
\* classifier returned unknown and the review_type is not None, and is the
\* classifier's own label in every other case: an RCT, cohort or
\* cross-sectional design is left unchanged.
C19_UpgradeOnlyFromUnknown ==
    StudyBuilt =>
        LET study == ret[1].result.study[1]
            classified == classify_study_design(Titled)
        IN  /\ study.review_type = classify_review_type(Titled)
            /\ ~(study.study_design = "unknown"
                 /\ study.review_type \in {"Systematic review", "Meta-analysis"})
            /\ classified = "unknown" /\ study.review_type # "None" =>
                   study.study_design = "review"
            /\ classified # "unknown" \/ study.review_type = "None" =>
                   study.study_design = classified
            /\ classified \in {"RCT", "cohort", "cross-sectional"} =>
                   study.study_design = classified

\* an abstract "systematic reviews", which the design classifier does not
\* know, has given a record of design review and review_type Systematic review
C19_UpgradedToReview ==
    /\ StudyBuilt
    /\ arg = <<"systematic", " ", "reviews">>
    /\ classify_study_design(Titled) = "unknown"
    /\ ret[1].result.study[1].study_design = "review"
    /\ ret[1].result.study[1].review_type = "Systematic review"

\* ------------------------------------------------------------------ properties: sample size

Plausible(value) == 2 <= value /\ value <= 10000000

\* where each pattern matches in the text, every match and not the first
\* only: "n = <int>" for patterns 1 and 2, "<int> participants" for pattern 3;
\* a position is that of the token holding the integer
MatchesAt(pattern, text) ==
    IF pattern \in {1, 2}
    THEN {i \in 1..Len(text) : text[i] \in {"n=120", "n=01"}}
    ELSE {i \in 1..(Len(text) - 2) : /\ text[i] \in {"n=120", "n=01", "240"}
                                     /\ text[i + 1] = " "
                                     /\ text[i + 2] = "participants"}

PlausibleAt(pattern, text) ==
    {i \in MatchesAt(pattern, text) : Plausible(TrailingNumber(text[i]))}

\* C20: extract_sample_size returns the first plausible integer match of the
\* first pattern, in the order n = <int>, N = <int>, <int> participants, that
\* has one; it returns none only when no pattern has a plausible match in the
\* text; a value it returns lies in [2, 10,000,000].
C20_FirstPlausibleMatch ==
    ret # <<>> =>
        LET having == {p \in 1..3 : PlausibleAt(p, arg) # {}} IN
        /\ ret[1] # None => Plausible(ret[1][1])
        /\ ret[1] = None => having = {}
        /\ having # {} =>
               LET p == CHOOSE q \in having : \A o \in having : q <= o
                   i == CHOOSE m \in PlausibleAt(p, arg) : \A o \in PlausibleAt(p, arg) : m <= o
               IN  ret[1] = Some(TrailingNumber(arg[i]))

\* what holds: only the first match of each pattern is looked at. The value
\* returned is the first match of the first pattern whose first match is
\* plausible; none is returned exactly when no pattern has a plausible first
\* match; a value returned lies in [2, 10,000,000].
C20_FirstMatchOfEachPattern ==
    ret # <<>> =>
        LET First(p) == CHOOSE m \in MatchesAt(p, arg) : \A o \in MatchesAt(p, arg) : m <= o
            having == {p \in 1..3 : /\ MatchesAt(p, arg) # {}
                                    /\ Plausible(TrailingNumber(arg[First(p)]))}
        IN  /\ ret[1] # None => Plausible(ret[1][1])
            /\ ret[1] = None <=> having = {}
            /\ having # {} =>
                   ret[1] = Some(TrailingNumber(arg[First(CHOOSE q \in having : \A o \in having : q <= o)]))

\* "n=01 n=120": the first match of n = <int> is 1, the plausible 120 after it
\* is not looked at, and no sample size is returned
C20_PlausibleMatchMissed ==
    /\ arg = <<"n=01", " ", "n=120">>
    /\ ret = <<None>>

\* ------------------------------------------------------------------ properties: abstract excerpt

\* C21: the abstract_excerpt of a record has at most 420 characters, whatever
\* the length of the abstract, text or title it is taken from.
C21_ExcerptAtMost420 == ret # <<>> => StrLen(ret[1]) <= 420

\* what holds: a source of at most 420 characters (once normalized) is the
\* excerpt itself; a longer one gives its first 419 characters and "...",
\* 422 characters in all
C21_ExcerptAtMost422 ==
    ret # <<>> =>
        LET source == normalize_whitespace(OrStr(arg.abstract, OrStr(arg.text, arg.title))) IN
        /\ StrLen(source) <= 420 => ret[1] = source
        /\ StrLen(source) > 420 =>
               /\ StrLen(ret[1]) = 422
               /\ ret[1][Len(ret[1])] = "..."
               /\ StrLen(SubSeq(ret[1], 1, Len(ret[1]) - 1)) = 419

\* an abstract of 422 characters has an excerpt of 422 characters
C21_ExcerptOf422 ==
    /\ ret # <<>>
    /\ arg.abstract = LongText
    /\ StrLen(ret[1]) = 422

\* ------------------------------------------------------------------ properties: error strings

\* an optional error string is absent or of at most 200 characters
Bounded(opt) == opt = None \/ opt[1].len <= 200

\* C22: every error string of a result has at most 200 characters, whatever
\* the length of the exception's message: parse_error and fallback_reason of
\* the diagnostics and the error of an error item, each the first 200
\* characters of the message it comes from.
C22_ErrorStringsBounded ==
    /\ Bounded(parse_error)
    /\ \A k \in Produced :
           /\ Bounded(results[k].error)
           /\ results[k].diagnostics # None =>
                  /\ Bounded(results[k].diagnostics[1].parse_error)
                  /\ Bounded(results[k].diagnostics[1].fallback_reason)
           /\ hist[k].env.kind = "raised" =>
                  results[k].error =
                      Some([base |-> hist[k].env.msg.base, len |-> Min(200, hist[k].env.msg.len)])
           /\ hist[k].env.kind = "exception" =>
                  results[k].diagnostics[1].parse_error =
                      Some([base |-> hist[k].env.msg.base, len |-> Min(200, hist[k].env.msg.len)])

\* a message of 348 characters raised by validate_pdf_url and a message of 250
\* characters raised by the transport have both come out with 200 characters
C22_LongMessagesCut ==
    /\ \E k \in Produced : /\ hist[k].env.kind = "raised" /\ hist[k].env.msg.len = 348
                           /\ results[k].error # None /\ results[k].error[1].len = 200
    /\ \E k \in Produced : /\ hist[k].env.kind = "exception" /\ hist[k].env.msg.len = 250
                           /\ results[k].diagnostics[1].parse_error[1].len = 200
                           /\ results[k].diagnostics[1].fallback_reason[1].len = 200

\* ------------------------------------------------------------------ properties: determinism

\* C23: two runs of extract_one on the same paper that met the same answers
\* (the same rejection, the same exception, the same document) give the same
\* item, study and diagnostics alike; and the item of every paper is what the
\* paper and the answers its own run met give, whatever the timeout is and
\* whatever paper was processed before it.
C23_SameInputsSameItem ==
    /\ \A j \in Produced : \A k \in Produced :
           request.papers[j] = request.papers[k] /\ hist[j].env = hist[k].env =>
               results[j] = results[k]
    /\ \A k \in Produced : results[k] = ExpectedItem(request.papers[k], hist[k].env)
    /\ pc = "start" => parse_error = None /\ pdf_bytes = None /\ pdf_text = <<>>

\* the same paper was run twice in one batch, after a timeout of 0 in the
\* request; both runs read the same text from the document and gave the same
\* record of the pdf engine
C23_TwoRunsOneRecord ==
    /\ Len(results) = 2
    /\ request.timeout_ms = 0
    /\ request.papers[1] = request.papers[2]
    /\ hist[1].env.kind = "text" /\ hist[2].env = hist[1].env
    /\ results[1] = results[2]
    /\ results[1].diagnostics[1].engine = "pdf"

\* ------------------------------------------------------------------ properties: candidates

\* the sentences of the text that hold a result marker, in order
MarkerSentences(text) == SelectSeq(split_sentences(text), HasMarker)

\* C24: when the text has a sentence with a result marker, every outcome
\* returned is a candidate: its key_result is its non-empty sentence and its
\* confidence is at least 0.4, so the filter at 0.35 removes nothing, the
\* single best candidate is never what is kept, and the outcomes returned are
\* exactly the deduplicated candidates, in the order of their sentences.
C24_CandidatesAllKept ==
    ret # <<>> /\ MarkerSentences(arg) # <<>> =>
        LET marked == MarkerSentences(arg)
            candidates == [i \in 1..Len(marked) |-> Candidate(marked[i])]
            deduped == dedupe_outcomes(candidates)
            outcomes == ret[1][1]
            confidences == ret[1][2]
        IN  /\ \A i \in 1..Len(candidates) : candidates[i].confidence >= 40
            /\ outcomes = [i \in 1..Len(deduped) |-> deduped[i].outcome]
            /\ confidences = [i \in 1..Len(deduped) |-> deduped[i].confidence]
            /\ Len(outcomes) = Cardinality({Lower(marked[i]) : i \in 1..Len(marked)})
            /\ \A i \in 1..Len(outcomes) :
                   /\ outcomes[i].key_result = Some(outcomes[i].citation_snippet)
                   /\ outcomes[i].citation_snippet # <<>>
                   /\ HasMarker(outcomes[i].citation_snippet)
                   /\ confidences[i] >= 40
            /\ \A i \in 1..Len(outcomes) : \A j \in 1..Len(outcomes) :
                   i < j => \E m \in 1..Len(marked) : \E n \in 1..Len(marked) :
                                /\ m < n
                                /\ marked[m] = outcomes[i].citation_snippet
                                /\ marked[n] = outcomes[j].citation_snippet

\* "vs. p=.05" has given its two candidates, in order, the first with no
\* signal but its sentence and the confidence 0.4
C24_TwoCandidatesKept ==
    /\ ret # <<>>
    /\ arg = <<"vs", ".", " ", "p=.05">>
    /\ Len(ret[1][1]) = 2
    /\ ret[1][1][1].citation_snippet = <<"vs", ".">>
    /\ ret[1][2][1] = 40

\* ------------------------------------------------------------------ properties: diagnostics

\* C25: in every record, used_pdf is true exactly when the engine is pdf; a
\* record of the pdf engine has neither fallback_reason nor parse_error; a
\* record of the abstract engine has a fallback_reason, and a non-empty one;
\* and a parse_error that is a non-empty string is also the fallback_reason.
C25_DiagnosticsConsistent ==
    \A k \in Produced :
        results[k].diagnostics # None =>
            LET d == results[k].diagnostics[1] IN
            /\ d.engine \in {"pdf", "abstract"}
            /\ d.used_pdf <=> d.engine = "pdf"
            /\ d.engine = "pdf" => d.fallback_reason = None /\ d.parse_error = None
            /\ d.engine = "abstract" => d.fallback_reason # None /\ d.fallback_reason[1].len > 0
            /\ d.parse_error # None /\ d.parse_error[1].len > 0 => d.fallback_reason = d.parse_error
            /\ Len(d.outcome_confidence) = Len(results[k].study[1].outcomes)

\* one batch has given a record of the pdf engine, without reason or error,
\* and a record of the abstract engine whose reason is its parse_error
C25_BothEnginesInOneBatch ==
    /\ \E k \in Produced : /\ results[k].diagnostics # None
                           /\ results[k].diagnostics[1].engine = "pdf"
                           /\ results[k].diagnostics[1].used_pdf
                           /\ results[k].diagnostics[1].fallback_reason = None
    /\ \E k \in Produced : /\ results[k].diagnostics # None
                           /\ results[k].diagnostics[1].engine = "abstract"
                           /\ results[k].diagnostics[1].parse_error = Some(Str("empty_pdf_text"))
                           /\ results[k].diagnostics[1].fallback_reason = Some(Str("empty_pdf_text"))

\* ------------------------------------------------------------------ properties: download service

ActiveCount(tbl) == Cardinality(active_tasks(tbl))

\* a step in which a POST /api/download call with a valid paper_type enters the
\* handler: it passes the limit test, or it is answered at once with a code
\* other than 202 (which is the answer of a call that had entered before)
ValidRequestArrives ==
    \/ \E h \in Handlers : handler[h] = "idle" /\ handler'[h] # "idle"
    \/ /\ response' # response
       /\ response'.paper_type \in valid_types
       /\ response'.status_code # 202

\* C26: however the POST /api/download handlers and the download threads
\* interleave, the task table never holds more than MAX_CONCURRENT_TASKS (5)
\* records whose status is pending or processing, and a request that arrives
\* while 5 are active is answered 429 and adds no record and starts no thread.
C26_ActiveTasksCapped ==
    [][ /\ ActiveCount(tasks') <= MAX_CONCURRENT_TASKS
        /\ ValidRequestArrives /\ ActiveCount(tasks) >= MAX_CONCURRENT_TASKS =>
               /\ response'.status_code = 429
               /\ UNCHANGED <<tasks, thread, handler, issued>> ]_vars

\* five records are pending or processing, a thread is at work, and the last
\* request was answered 429
C26_RejectedAtFiveActive ==
    /\ ActiveCount(tasks) = MAX_CONCURRENT_TASKS
    /\ response.status_code = 429
    /\ \E t \in TaskIds : thread[t] = "downloading"
    /\ issued = MAX_CONCURRENT_TASKS

Terminal(status) == status \in {"completed", "failed"}

\* C27: a task's status moves only pending -> processing -> completed or failed
\* and stays there; completed_at is set in the step that reaches completed or
\* failed and in no other; the cleanup removes no pending or processing record,
\* so a thread that has not finished always finds its record.
C27_TaskLifecycle ==
    [][ /\ \A t \in DOMAIN tasks :
              IF t \in DOMAIN tasks'
              THEN /\ \/ tasks'[t].status = tasks[t].status
                      \/ tasks[t].status = "pending" /\ tasks'[t].status = "processing"
                      \/ tasks[t].status = "processing" /\ Terminal(tasks'[t].status)
                   /\ tasks'[t].completed_at # tasks[t].completed_at <=>
                          ~Terminal(tasks[t].status) /\ Terminal(tasks'[t].status)
                   /\ tasks'[t].completed_at # None <=> Terminal(tasks'[t].status)
              ELSE Terminal(tasks[t].status)
        /\ \A t \in DOMAIN tasks' \ DOMAIN tasks :
              tasks'[t].status = "pending" /\ tasks'[t].completed_at = None
        /\ \A t \in TaskIds :
              thread'[t] \in {"begin", "downloading"} => t \in DOMAIN tasks' ]_vars

\* the cleanup has removed the oldest finished record while an older and a
\* younger task are still at work, and a completed record carries completed_at
C27_CleanupSparesRunningTasks ==
    /\ 1 \in DOMAIN tasks /\ tasks[1].status = "processing"
    /\ 2 \notin DOMAIN tasks /\ thread[2] = "done"
    /\ \E t \in DOMAIN tasks : tasks[t].status = "completed" /\ tasks[t].completed_at # None
    /\ \E t \in DOMAIN tasks : tasks[t].status = "pending" /\ thread[t] = "begin"

====
